---- MODULE Spec2Model ----
(***************************************************************************)
(* Model of the two-player console game (game/src/lib.rs): the World       *)
(* component store, the entity factories, the five-system pipeline, the    *)
(* round loop of game_loop and the match loop of run, and the snapshot     *)
(* encoding sent to the bots.                                              *)
(*                                                                         *)
(* Entity ids are 0-based as in the code; the component arrays are TLA+    *)
(* sequences, so entity id i lives at index i + 1 (operator At).           *)
(***************************************************************************)
EXTENDS Integers, Sequences, FiniteSets, TLC

\* ---- program constants (game/src/lib.rs) ----
PLAYER_LIVES == 10
MAX_ENERGY == 100
LIFETIME_RAY == 10
EXPLODE_DURATION == 2
MISSILE_MIN_RANGE == 8
ENERGY_MISSILE == 3
ENERGY_RAY == 25
ENERGY_SHIELD == 3
ENERGY_EVERY == 5

\* ---- bounds of the model ----
\* the terminal size reported by out.dimensions()
Width == 18
Height == 8
\* ticks of game_loop's while loop explored per round
MaxTicks == 10
\* input events taken from the channel in a match
MaxInputs == 2
\* Fire events taken from the channel in a match of the shoot-out
MaxShots == 3
\* the drains of a round that find events in the channel: those of ticks 0 .. InputTicks - 1
InputTicks == 2
\* rounds (calls of game_loop) explored
MaxRounds == 2
\* the tallest terminal of the blast
BlastHeight == 9
\* entities in the world (players, bars and projectiles); a Fire event is
\* taken only below it
MaxEntities == 8

\* snapshots the buffer of a socket holds before write_all waits for the reader
SockCap == 2
\* connections a client makes to a slot in a match
MaxConns == 2
\* records a client writes to a slot in a match
MaxRecords == 1
\* ticks of the match played by bots
NetTicks == 3

VARIABLES w, pc, phase, is_quit, es, tick, inputs, round,
          conn, ch, thread, sock

\* the servers: conn[s] is Server.conn of slot s (0 is None, k the stream of
\* the slot's k-th connection), ch the mpsc channel of input events,
\* thread[s] the thread spawned by Server::new, sock[s] the socket of slot s
net == <<conn, ch, thread, sock>>

vars == <<w, pc, phase, is_quit, es, tick, inputs, round, net>>

\* ---- rs-sdk/src/dir.rs ----
Dirs == {"None", "Up", "Down", "Left", "Right"}

DIRS == <<"None", "Up", "Down", "Left", "Right">>

opposite(d) ==
    CASE d = "Up" -> "Down"
      [] d = "Down" -> "Up"
      [] d = "Left" -> "Right"
      [] d = "Right" -> "Left"
      [] d = "None" -> "None"

as_num(d) ==
    CASE d = "None" -> 0
      [] d = "Up" -> 1
      [] d = "Down" -> 2
      [] d = "Left" -> 3
      [] d = "Right" -> 4

\* ---- game/src/pos.rs ----
Pos(px, py, inv) == [x |-> px, y |-> py, invalid |-> inv]

nil == Pos(0, 0, TRUE)

moved(p, amount, dir) ==
    CASE dir = "Up" ->
            IF p.y > amount THEN Pos(p.x, p.y - amount, FALSE)
            ELSE Pos(p.x, p.y, TRUE)
      [] dir = "Down" -> Pos(p.x, p.y + amount, FALSE)
      [] dir = "Left" ->
            IF p.x > amount THEN Pos(p.x - amount, p.y, FALSE)
            ELSE Pos(p.x, p.y, TRUE)
      [] dir = "Right" -> Pos(p.x + amount, p.y, FALSE)
      [] dir = "None" -> Pos(p.x, p.y, FALSE)

does_hit(p, q) == p.x = q.x /\ p.y = q.y

\* ---- game/src/lib.rs: World ----
\* element of entity id (0-based) in a component array
At(s, id) == s[id + 1]

\* the component array s with the slot of entity id replaced by v
Put(s, id, v) == [s EXCEPT ![id + 1] = v]

Solid == [tag |-> "Solid", n |-> 0]

Permanent == [tag |-> "Permanent", n |-> 0]

Temporary(k) == [tag |-> "Temporary", n |-> k]

Max(a, b) == IF a >= b THEN a ELSE b

\* 0-based ids of a component array
Ids(s) == 0 .. (Len(s) - 1)

\* mutant: the obstacles are not looked at
is_on_board_open(wd, pos) ==
    LET x_fit == ~pos.invalid /\ 1 <= pos.x /\ pos.x < wd.width - 1
        y_fit == 2 <= pos.y /\ pos.y < wd.height - 2
    IN  x_fit /\ y_fit

is_on_board(wd, pos) ==
    LET x_fit == ~pos.invalid /\ 1 <= pos.x /\ pos.x < wd.width - 1
        y_fit == 2 <= pos.y /\ pos.y < wd.height - 2
    IN  /\ x_fit
        /\ y_fit
        /\ \A id \in Ids(wd.lifetime) :
              At(wd.lifetime, id) = Solid => ~does_hit(At(wd.position, id)[1], pos)

both_players_alive(wd) == wd.p1_lives > 0 /\ wd.p2_lives > 0

both_players_standing(wd) == At(wd.alive, wd.player1) /\ At(wd.alive, wd.player2)

\* ids of the living entities, ascending
alive_entities(wd) == SelectSeq([i \in 1 .. Len(wd.alive) |-> i - 1], LAMBDA id : At(wd.alive, id))

\* ---- entity factories ----
Sprite(color_idx, is_bold) == [color_idx |-> color_idx, is_bold |-> is_bold]

\* returns the world with the player appended; its id is the old length of name
new_player(wd, name, color_idx) ==
    [wd EXCEPT !.name = Append(@, name),
               !.alive = Append(@, TRUE),
               !.lifetime = Append(@, Permanent),
               !.velocity = Append(@, [q |-> 1, dir |-> "None"]),
               !.sprite = Append(@, Sprite(color_idx, TRUE)),
               !.energy = Append(@, MAX_ENERGY),
               !.shield = Append(@, FALSE),
               !.bounce = Append(@, TRUE),
               !.explode = Append(@, [will |-> FALSE, is |-> FALSE]),
               !.active_weapon = Append(@, "Missile"),
               !.position = Append(@, <<nil>>)]

\* the partial row new_missile has pushed when it panics on Dir::None
new_missile_panic(wd) ==
    [wd EXCEPT !.name = Append(@, [kind |-> "Missile", num |-> Len(wd.name)]),
               !.alive = Append(@, TRUE)]

\* new_missile panics: the trailing cell is on board and the direction is None
new_missile_panics(wd, start_pos, dir) ==
    is_on_board(wd, moved(start_pos, 1, dir)) /\ dir = "None"

\* mutant: the missile is created whatever its trailing cell
new_missile_unchecked(wd, start_pos, dir, color_idx) ==
    LET pos_2 == moved(start_pos, 1, dir)
        range == IF dir \in {"Up", "Down"} THEN wd.missile_range_vertical
                 ELSE wd.missile_range_horizontal
    IN  [wd EXCEPT !.name = Append(@, [kind |-> "Missile", num |-> Len(wd.name)]),
                   !.alive = Append(@, TRUE),
                   !.lifetime = Append(@, Temporary(range)),
                   !.position = Append(@, <<start_pos, pos_2>>),
                   !.velocity = Append(@, [q |-> 2, dir |-> dir]),
                   !.sprite = Append(@, Sprite(color_idx, FALSE)),
                   !.energy = Append(@, 0),
                   !.shield = Append(@, FALSE),
                   !.bounce = Append(@, FALSE),
                   !.explode = Append(@, [will |-> TRUE, is |-> FALSE]),
                   !.active_weapon = Append(@, "NoWeapon")]

\* mutant: the name is pushed before the trailing cell is tested
new_missile_name_first(wd, start_pos, dir, color_idx) ==
    LET pos_2 == moved(start_pos, 1, dir)
        range == IF dir \in {"Up", "Down"} THEN wd.missile_range_vertical
                 ELSE wd.missile_range_horizontal
        named == [wd EXCEPT !.name = Append(@, [kind |-> "Missile", num |-> Len(wd.name)])]
    IN  IF ~is_on_board(wd, pos_2) THEN named
        ELSE [named EXCEPT
                        !.alive = Append(@, TRUE),
                        !.lifetime = Append(@, Temporary(range)),
                        !.position = Append(@, <<start_pos, pos_2>>),
                        !.velocity = Append(@, [q |-> 2, dir |-> dir]),
                        !.sprite = Append(@, Sprite(color_idx, FALSE)),
                        !.energy = Append(@, 0),
                        !.shield = Append(@, FALSE),
                        !.bounce = Append(@, FALSE),
                        !.explode = Append(@, [will |-> TRUE, is |-> FALSE]),
                        !.active_weapon = Append(@, "NoWeapon")]

new_missile(wd, start_pos, dir, color_idx) ==
    LET pos_2 == moved(start_pos, 1, dir)
        range == IF dir \in {"Up", "Down"} THEN wd.missile_range_vertical
                 ELSE wd.missile_range_horizontal
    IN  IF ~is_on_board(wd, pos_2) THEN wd
        ELSE [wd EXCEPT !.name = Append(@, [kind |-> "Missile", num |-> Len(wd.name)]),
                        !.alive = Append(@, TRUE),
                        !.lifetime = Append(@, Temporary(range)),
                        !.position = Append(@, <<start_pos, pos_2>>),
                        !.velocity = Append(@, [q |-> 2, dir |-> dir]),
                        !.sprite = Append(@, Sprite(color_idx, FALSE)),
                        !.energy = Append(@, 0),
                        !.shield = Append(@, FALSE),
                        !.bounce = Append(@, FALSE),
                        !.explode = Append(@, [will |-> TRUE, is |-> FALSE]),
                        !.active_weapon = Append(@, "NoWeapon")]

\* the cells new_ray's loop collects: p is pushed, then advanced, and the loop
\* stops after dist iterations or as soon as the advanced cell is off board
RECURSIVE ray_positions(_, _, _, _, _)
ray_positions(wd, p, dir, dist, acc) ==
    IF dist = 0 THEN acc
    ELSE LET next == moved(p, 1, dir)
         IN  IF ~is_on_board(wd, next) THEN Append(acc, p)
             ELSE ray_positions(wd, next, dir, dist - 1, Append(acc, p))

\* mutant: the top row is taken to be row 3
dist_to_edge_low(wd, start_pos, dir) ==
    CASE dir = "Left" -> start_pos.x - 1
      [] dir = "Right" -> wd.width - 2 - start_pos.x
      [] dir = "Up" -> start_pos.y - 3
      [] dir = "Down" -> wd.height - 2 - start_pos.y - 1
      [] dir = "None" -> 0

\* new_ray: the cells between the start cell and the edge of the board
dist_to_edge(wd, start_pos, dir) ==
    CASE dir = "Left" -> start_pos.x - 1
      [] dir = "Right" -> wd.width - 2 - start_pos.x
      [] dir = "Up" -> start_pos.y - 2
      [] dir = "Down" -> wd.height - 2 - start_pos.y - 1
      [] dir = "None" -> 0

new_ray(wd, start_pos, dir, color_idx) ==
    [wd EXCEPT !.position = Append(@, ray_positions(wd, start_pos, dir,
                                                    dist_to_edge(wd, start_pos, dir), <<>>)),
                   !.name = Append(@, [kind |-> "Ray", num |-> Len(wd.name)]),
                   !.alive = Append(@, TRUE),
                   !.lifetime = Append(@, Temporary(LIFETIME_RAY)),
                   !.velocity = Append(@, [q |-> 1, dir |-> dir]),
                   !.sprite = Append(@, Sprite(color_idx, FALSE)),
                   !.energy = Append(@, 0),
                   !.shield = Append(@, TRUE),
                   !.bounce = Append(@, FALSE),
                   !.explode = Append(@, [will |-> FALSE, is |-> FALSE]),
                   !.active_weapon = Append(@, "NoWeapon")]

new_bar(wd, start_pos, dir) ==
    [wd EXCEPT !.name = Append(@, [kind |-> "Bar", num |-> Len(wd.name)]),
               !.alive = Append(@, TRUE),
               !.lifetime = Append(@, Solid),
               !.position = Append(@, <<start_pos>>),
               !.velocity = Append(@, [q |-> 0, dir |-> dir]),
               !.sprite = Append(@, Sprite(0, FALSE)),
               !.energy = Append(@, 0),
               !.shield = Append(@, TRUE),
               !.bounce = Append(@, FALSE),
               !.explode = Append(@, [will |-> FALSE, is |-> FALSE]),
               !.active_weapon = Append(@, "NoWeapon")]

\* mutant: player 2 is created first
add_players_swapped(wd) ==
    LET w1 == new_player(wd, [kind |-> "Player", num |-> 2], 2)
        w2 == new_player([w1 EXCEPT !.player2 = Len(wd.name)], [kind |-> "Player", num |-> 1], 1)
    IN  [w2 EXCEPT !.player1 = Len(w1.name)]

\* the entity ids by which the bot SDK finds the players in a snapshot
PLAYER_1_ID == 0
PLAYER_2_ID == 1

add_players(wd) ==
    LET w1 == new_player(wd, [kind |-> "Player", num |-> 1], 1)
        w2 == new_player([w1 EXCEPT !.player1 = Len(wd.name)], [kind |-> "Player", num |-> 2], 2)
    IN  [w2 EXCEPT !.player2 = Len(w1.name)]

RECURSIVE add_bars(_, _, _, _)
add_bars(wd, x, y, last) ==
    IF y >= last THEN wd
    ELSE add_bars(new_bar(wd, Pos(x, y, FALSE), "Up"), x, y + 1, last)

add_obstacles(wd) ==
    LET x == wd.width \div 2
        third == wd.height \div 3
    IN  add_bars(wd, x, third, third * 2)

\* mutant: reset clears no array
reset_stale(wd) ==
    add_obstacles(add_players(wd))

reset(wd) ==
    add_obstacles(add_players(
        [wd EXCEPT !.name = <<>>, !.alive = <<>>, !.lifetime = <<>>, !.sprite = <<>>,
                   !.velocity = <<>>, !.position = <<>>, !.energy = <<>>, !.shield = <<>>,
                   !.bounce = <<>>, !.explode = <<>>, !.active_weapon = <<>>]))

\* the World literal of run for a terminal of the given dimensions, before
\* add_players and add_obstacles
World(width, height) ==
    [width |-> width, height |-> height, player1 |-> 0, player2 |-> 0,
     p1_lives |-> PLAYER_LIVES, p2_lives |-> PLAYER_LIVES,
     missile_range_horizontal |-> Max(width \div 6, MISSILE_MIN_RANGE),
     missile_range_vertical |-> Max(height \div 5, MISSILE_MIN_RANGE),
     name |-> <<>>, alive |-> <<>>, lifetime |-> <<>>, sprite |-> <<>>,
     velocity |-> <<>>, position |-> <<>>, energy |-> <<>>, shield |-> <<>>,
     bounce |-> <<>>, explode |-> <<>>, active_weapon |-> <<>>]

\* the World of run on the terminal of the model
empty_world == World(Width, Height)

to_start_positions(wd) ==
    LET quarter == wd.width \div 4
        p1_pos == Pos(quarter, wd.height \div 2, FALSE)
        p2_pos == Pos(quarter * 3, wd.height \div 2, FALSE)
        v1 == [wd.velocity EXCEPT ![wd.player1 + 1].dir = "None"]
        p1 == [wd.position EXCEPT ![wd.player1 + 1][1] = p1_pos]
    IN  [wd EXCEPT !.position = [p1 EXCEPT ![wd.player2 + 1][1] = p2_pos],
                   !.velocity = [v1 EXCEPT ![wd.player2 + 1].dir = "None"]]

\* ---- the systems ----
\* mutant: the cells are advanced without the board test
walk_unchecked(wd, p, quantity, dir) ==
    [ok |-> TRUE, p |-> moved(p, quantity, dir)]

\* mutant: only the cell at the end of the walk is checked
walk_leap(wd, p, quantity, dir) ==
    [ok |-> is_on_board(wd, moved(p, quantity, dir)), p |-> moved(p, quantity, dir)]

\* the walk of one cell: quantity unit steps, each checked with is_on_board
RECURSIVE walk(_, _, _, _)
walk(wd, p, quantity, dir) ==
    IF quantity = 0 THEN [ok |-> TRUE, p |-> p]
    ELSE LET next_p == moved(p, 1, dir)
         IN  IF ~is_on_board(wd, next_p) THEN [ok |-> FALSE, p |-> next_p]
             ELSE walk(wd, next_p, quantity - 1, dir)

\* mutant: a cell whose walk left the board is removed from the list
move_entity_drop(wd, entity_id) ==
    LET v == At(wd.velocity, entity_id)
        cells == At(wd.position, entity_id)
        steps == [idx \in 1 .. Len(cells) |-> walk(wd, cells[idx], v.q, v.dir)]
        no_moves == \A idx \in 1 .. Len(cells) : ~steps[idx].ok
        new_cells == [idx \in 1 .. Len(cells) |->
                        IF steps[idx].ok THEN steps[idx].p
                        ELSE [cells[idx] EXCEPT !.invalid = TRUE]]
        kept(c) == ~c.invalid
    IN  IF v.q = 0 THEN wd
        ELSE [wd EXCEPT !.position = Put(@, entity_id, SelectSeq(new_cells, kept)),
                        !.velocity = IF no_moves /\ At(wd.bounce, entity_id)
                                     THEN Put(@, entity_id, [q |-> v.q, dir |-> opposite(v.dir)])
                                     ELSE @,
                        !.alive = IF no_moves /\ ~At(wd.bounce, entity_id)
                                  THEN Put(@, entity_id, FALSE)
                                  ELSE @]

\* mutant: a bouncing entity that cannot move keeps its direction
move_entity_no_turn(wd, entity_id) ==
    LET v == At(wd.velocity, entity_id)
        cells == At(wd.position, entity_id)
        steps == [idx \in 1 .. Len(cells) |-> walk(wd, cells[idx], v.q, v.dir)]
        no_moves == \A idx \in 1 .. Len(cells) : ~steps[idx].ok
        new_cells == [idx \in 1 .. Len(cells) |->
                        IF steps[idx].ok THEN steps[idx].p
                        ELSE [cells[idx] EXCEPT !.invalid = TRUE]]
    IN  IF v.q = 0 THEN wd
        ELSE [wd EXCEPT !.position = Put(@, entity_id, new_cells),
                        !.alive = IF no_moves /\ ~At(wd.bounce, entity_id)
                                  THEN Put(@, entity_id, FALSE)
                                  ELSE @]

\* the body of move_system's loop for one entity
move_entity(wd, entity_id) ==
    LET v == At(wd.velocity, entity_id)
        cells == At(wd.position, entity_id)
        steps == [idx \in 1 .. Len(cells) |-> walk(wd, cells[idx], v.q, v.dir)]
        no_moves == \A idx \in 1 .. Len(cells) : ~steps[idx].ok
        \* a cell whose walk left the board is flagged invalid in place,
        \* the others are overwritten by the end of their walk
        new_cells == [idx \in 1 .. Len(cells) |->
                        IF steps[idx].ok THEN steps[idx].p
                        ELSE [cells[idx] EXCEPT !.invalid = TRUE]]
    IN  IF v.q = 0 THEN wd
        ELSE [wd EXCEPT !.position = Put(@, entity_id, new_cells),
                        !.velocity = IF no_moves /\ At(wd.bounce, entity_id)
                                     THEN Put(@, entity_id, [q |-> v.q, dir |-> opposite(v.dir)])
                                     ELSE @,
                        !.alive = IF no_moves /\ ~At(wd.bounce, entity_id)
                                  THEN Put(@, entity_id, FALSE)
                                  ELSE @]

\* move_system's loop from the k-th alive entity on; the world after one
\* entity is computed once and handed to the rest of the loop
RECURSIVE move_loop(_, _, _)
move_loop(wd, ids, k) ==
    IF k > Len(ids) THEN wd
    ELSE CHOOSE r \in {move_loop(next, ids, k + 1) : next \in {move_entity(wd, ids[k])}} : TRUE

move_system(wd) == move_loop(wd, alive_entities(wd), 1)

\* mutant: the entity is ended one tick late (next >= 0 instead of next > 0)
lifetime_entity_late(wd, entity_id) ==
    LET l == At(wd.lifetime, entity_id)
    IN  IF l.tag # "Temporary" THEN wd
        ELSE IF l.n - 1 >= 0
             THEN [wd EXCEPT !.lifetime = Put(@, entity_id, Temporary(l.n - 1))]
             ELSE [wd EXCEPT !.alive = Put(@, entity_id, FALSE)]

\* the body of lifetime_system's loop for one entity
lifetime_entity(wd, entity_id) ==
    LET l == At(wd.lifetime, entity_id)
    IN  IF l.tag # "Temporary" THEN wd
        ELSE IF l.n - 1 > 0
             THEN [wd EXCEPT !.lifetime = Put(@, entity_id, Temporary(l.n - 1))]
             ELSE [wd EXCEPT !.alive = Put(@, entity_id, FALSE)]

\* lifetime_system's loop from the k-th alive entity on
RECURSIVE lifetime_loop(_, _, _)
lifetime_loop(wd, ids, k) ==
    IF k > Len(ids) THEN wd
    ELSE CHOOSE r \in {lifetime_loop(next, ids, k + 1) : next \in {lifetime_entity(wd, ids[k])}} : TRUE

lifetime_system(wd) == lifetime_loop(wd, alive_entities(wd), 1)

\* some cell of entity a is a cell of entity b
cells_hit(wd, a, b) ==
    \E i \in 1 .. Len(At(wd.position, a)) : \E j \in 1 .. Len(At(wd.position, b)) :
        does_hit(At(wd.position, a)[i], At(wd.position, b)[j])

\* the pairs (id1, id2) collision_system tests, in the order it tests them:
\* `for (id1, idx) in ids.iter().enumerate()` binds id1 to the position in the
\* list of alive ids and idx to the alive id at that position, and the inner
\* loop runs over ids.iter().skip(idx)
collision_outer(ids, k) == [id1 |-> k - 1, idx |-> ids[k]]

collision_pairs(ids) ==
    LET row(k) == LET o == collision_outer(ids, k)
                  IN  SelectSeq([j \in 1 .. Len(ids) |-> <<o.id1, ids[j], j>>],
                                LAMBDA t : t[3] > o.idx /\ t[1] # t[2])
        RECURSIVE cat(_)
        cat(k) == IF k > Len(ids) THEN <<>> ELSE row(k) \o cat(k + 1)
    IN  cat(1)

\* index of the first tested pair that shares a cell, 0 when there is none
first_hit(wd, pairs) ==
    LET hits == {k \in 1 .. Len(pairs) : cells_hit(wd, pairs[k][1], pairs[k][2])}
    IN  IF hits = {} THEN 0 ELSE CHOOSE k \in hits : \A m \in hits : k <= m

\* mutant: a hit marks nobody
collision_system_harmless(wd) == wd

\* collision_system: the first tested pair that shares a cell is resolved
collision_system(wd) ==
    LET pairs == collision_pairs(alive_entities(wd))
        k == first_hit(wd, pairs)
    IN  IF k = 0 THEN wd
        ELSE LET id1 == pairs[k][1]
                 id2 == pairs[k][2]
                 a1 == IF ~At(wd.shield, id1) THEN Put(wd.alive, id1, FALSE) ELSE wd.alive
             IN  [wd EXCEPT !.alive = IF ~At(wd.shield, id2) THEN Put(a1, id2, FALSE) ELSE a1]

\* mutant: the shield is paid for with the last of the energy (>= for >)
energy_system_overdraw(wd) ==
    LET charged == [i \in 1 .. Len(wd.energy) |->
                      IF wd.energy[i] < MAX_ENERGY THEN wd.energy[i] + 1 ELSE wd.energy[i]]
    IN  [wd EXCEPT !.energy = [i \in 1 .. Len(charged) |->
                                 IF wd.shield[i] /\ charged[i] >= ENERGY_SHIELD
                                 THEN charged[i] - ENERGY_SHIELD ELSE charged[i]],
                   !.shield = [i \in 1 .. Len(wd.shield) |->
                                 wd.shield[i] /\ charged[i] >= ENERGY_SHIELD]]

\* mutant: the recharge has no cap
energy_system_uncapped(wd) ==
    LET charged == [i \in 1 .. Len(wd.energy) |-> wd.energy[i] + 1]
    IN  [wd EXCEPT !.energy = [i \in 1 .. Len(charged) |->
                                 IF wd.shield[i] /\ charged[i] > ENERGY_SHIELD
                                 THEN charged[i] - ENERGY_SHIELD ELSE charged[i]],
                   !.shield = [i \in 1 .. Len(wd.shield) |->
                                 wd.shield[i] /\ charged[i] > ENERGY_SHIELD]]

\* energy_system: every entity gains one unit below MAX_ENERGY, then every
\* shielded entity pays ENERGY_SHIELD or loses its shield
energy_system(wd) ==
    LET charged == [i \in 1 .. Len(wd.energy) |->
                      IF wd.energy[i] < MAX_ENERGY THEN wd.energy[i] + 1 ELSE wd.energy[i]]
    IN  [wd EXCEPT !.energy = [i \in 1 .. Len(charged) |->
                                 IF wd.shield[i] /\ charged[i] > ENERGY_SHIELD
                                 THEN charged[i] - ENERGY_SHIELD ELSE charged[i]],
                   !.shield = [i \in 1 .. Len(wd.shield) |->
                                 wd.shield[i] /\ charged[i] > ENERGY_SHIELD]]

\* the column x of an explosion: y from src_y - 2 to src_y + 2, negative y skipped
RECURSIVE explosion_col(_, _, _, _, _)
explosion_col(wd, x, y, last, acc) ==
    IF y > last THEN acc
    ELSE IF y < 0 THEN explosion_col(wd, x, y + 1, last, acc)
    ELSE LET e == Pos(x, y, FALSE)
         IN  explosion_col(wd, x, y + 1, last,
                           IF is_on_board(wd, e) THEN Append(acc, e) ELSE acc)

RECURSIVE explosion_rows(_, _, _, _, _)
explosion_rows(wd, x, last, src_y, acc) ==
    IF x > last THEN acc
    ELSE IF x < 0 THEN explosion_rows(wd, x + 1, last, src_y, acc)
    ELSE explosion_rows(wd, x + 1, last, src_y,
                        explosion_col(wd, x, src_y - 2, src_y + 2, acc))

\* mutant: the last column of the square is left out
explosion_narrow(wd, p) == explosion_rows(wd, p.x - 2, p.x + 1, p.y, <<>>)

\* positions for an explosion originating at p
explosion(wd, p) == explosion_rows(wd, p.x - 2, p.x + 2, p.y, <<>>)

\* mutant: an entity that is exploding is picked again
to_explode_again(wd) ==
    {id \in Ids(wd.explode) :
        /\ At(wd.explode, id).will
        /\ At(wd.lifetime, id).tag = "Temporary"
        /\ At(wd.lifetime, id).n <= EXPLODE_DURATION}

\* the ids explode_system turns into explosions
to_explode(wd) ==
    {id \in Ids(wd.explode) :
        /\ At(wd.explode, id).will
        /\ ~At(wd.explode, id).is
        /\ At(wd.lifetime, id).tag = "Temporary"
        /\ At(wd.lifetime, id).n <= EXPLODE_DURATION}

explode_system(wd) ==
    LET ids == to_explode(wd)
    IN  [wd EXCEPT !.explode = [i \in 1 .. Len(@) |->
                                  IF (i - 1) \in ids THEN [@[i] EXCEPT !.is = TRUE] ELSE @[i]],
                   !.position = [i \in 1 .. Len(@) |->
                                  IF (i - 1) \in ids THEN explosion(wd, @[i][1]) ELSE @[i]],
                   !.velocity = [i \in 1 .. Len(@) |->
                                  IF (i - 1) \in ids THEN [q |-> 0, dir |-> "None"] ELSE @[i]]]

\* ---- World::entity_state and the snapshot bytes ----
\* u32::to_be_bytes
to_be_bytes(n) ==
    <<(n \div 16777216) % 256, (n \div 65536) % 256, (n \div 256) % 256, n % 256>>

\* mutant: the last byte of a record is the life counter of player 1
entity_record_lives(wd, entity_id) ==
    <<entity_id % 256>>
        \o to_be_bytes(At(wd.position, entity_id)[1].x)
        \o to_be_bytes(At(wd.position, entity_id)[1].y)
        \o <<as_num(At(wd.velocity, entity_id).dir),
             At(wd.velocity, entity_id).q,
             wd.p1_lives % 256>>

\* the 12-byte record of one entity
entity_record(wd, entity_id) ==
    <<entity_id % 256>>
        \o to_be_bytes(At(wd.position, entity_id)[1].x)
        \o to_be_bytes(At(wd.position, entity_id)[1].y)
        \o <<as_num(At(wd.velocity, entity_id).dir),
             At(wd.velocity, entity_id).q,
             IF At(wd.shield, entity_id) THEN 1 ELSE 0>>

\* entity_state indexes position[entity_id][0]: it panics on an empty cell list
entity_state_panics(wd) == \E id \in Ids(wd.name) : Len(At(wd.position, id)) = 0

RECURSIVE entity_records(_, _)
entity_records(wd, entity_id) ==
    IF entity_id >= Len(wd.name) THEN <<>>
    ELSE entity_record(wd, entity_id) \o entity_records(wd, entity_id + 1)

entity_state(wd) == entity_records(wd, 0)

\* ---- input events (input.rs InputEvent, server.rs into_input_event) ----
Players == {1, 2}

InputEvents ==
    [type : {"Move", "Fire"}, entity_id : Players, dir : Dirs]
        \cup [type : {"ToggleShield", "ChangeWeapon"}, entity_id : Players, dir : {"None"}]

player_of(wd, entity_id) == IF entity_id = 1 THEN wd.player1 ELSE wd.player2

next_weapon(weapon) == IF weapon = "Missile" THEN "Ray" ELSE "Missile"

\* game_loop, InputEvent::Move
on_move(wd, ie) ==
    LET id == player_of(wd, ie.entity_id)
        cur == At(wd.velocity, id).dir
    IN  [wd EXCEPT !.velocity[id + 1].dir = IF opposite(cur) = ie.dir THEN "None" ELSE ie.dir]

\* game_loop, InputEvent::ToggleShield
on_toggle_shield(wd, ie) ==
    LET id == player_of(wd, ie.entity_id)
    IN  [wd EXCEPT !.shield[id + 1] = ~@]

\* game_loop, InputEvent::ChangeWeapon
on_change_weapon(wd, ie) ==
    LET id == player_of(wd, ie.entity_id)
    IN  [wd EXCEPT !.active_weapon[id + 1] = next_weapon(@)]

\* the cell a Fire event spawns its projectile at
fire_pos(wd, id, dir) ==
    IF dir = At(wd.velocity, id).dir
    THEN moved(At(wd.position, id)[1], 1, dir)
    ELSE At(wd.position, id)[1]

\* the Fire event is dropped (`continue`): firing forward into an off-board cell
fire_blocked(wd, id, dir) ==
    dir = At(wd.velocity, id).dir /\ ~is_on_board(wd, fire_pos(wd, id, dir))

\* the Fire event reaches new_missile, which panics
fire_panics(wd, ie) ==
    LET id == player_of(wd, ie.entity_id)
    IN  /\ ~fire_blocked(wd, id, ie.dir)
        /\ At(wd.active_weapon, id) = "Missile"
        /\ At(wd.energy, id) > ENERGY_MISSILE
        /\ new_missile_panics(wd, fire_pos(wd, id, ie.dir), ie.dir)

\* mutant: Fire without the energy test
on_fire_unpaid(wd, ie) ==
    LET id == player_of(wd, ie.entity_id)
        pos == fire_pos(wd, id, ie.dir)
        color == At(wd.sprite, id).color_idx
    IN  IF fire_blocked(wd, id, ie.dir) THEN wd
        ELSE IF At(wd.active_weapon, id) = "Missile"
        THEN [new_missile(wd, pos, ie.dir, color)
                  EXCEPT !.energy[id + 1] = Max(@ - ENERGY_MISSILE, 0)]
        ELSE [new_ray(wd, pos, ie.dir, color)
                  EXCEPT !.energy[id + 1] = Max(@ - ENERGY_RAY, 0)]

\* game_loop, InputEvent::Fire
on_fire(wd, ie) ==
    LET id == player_of(wd, ie.entity_id)
        pos == fire_pos(wd, id, ie.dir)
        e == At(wd.energy, id)
        color == At(wd.sprite, id).color_idx
    IN  IF fire_blocked(wd, id, ie.dir) THEN wd
        ELSE IF At(wd.active_weapon, id) = "Missile"
        THEN IF e > ENERGY_MISSILE
             THEN [new_missile(wd, pos, ie.dir, color) EXCEPT !.energy[id + 1] = @ - ENERGY_MISSILE]
             ELSE wd
        ELSE IF e > ENERGY_RAY
             THEN [new_ray(wd, pos, ie.dir, color) EXCEPT !.energy[id + 1] = @ - ENERGY_RAY]
             ELSE wd

on_event(wd, ie) ==
    CASE ie.type = "Move" -> on_move(wd, ie)
      [] ie.type = "ToggleShield" -> on_toggle_shield(wd, ie)
      [] ie.type = "ChangeWeapon" -> on_change_weapon(wd, ie)
      [] ie.type = "Fire" -> on_fire(wd, ie)

\* ---- game/src/server.rs, rs-sdk/src/lib.rs: the wire ----
\* Dir::from_num indexes DIRS and panics past its end
from_num_panics(n) == n >= Len(DIRS)

from_num(n) == DIRS[n + 1]

\* the command codes of into_input_event (MOVE and FIRE of the rs-sdk)
command_code(type) ==
    CASE type = "Quit" -> 0
      [] type = "Move" -> 1
      [] type = "Fire" -> 2
      [] type = "ToggleShield" -> 3
      [] type = "ChangeWeapon" -> 4

\* BotOut::dir and BotOut::fire: the 8-byte record of a command, the code in
\* byte 0 and the direction in byte 1
encode(type, dir) == <<command_code(type), as_num(dir), 0, 0, 0, 0, 0, 0>>

\* into_input_event panics: undefined command, or Dir::from_num out of bounds
into_input_event_panics(b) ==
    \/ b[1] > 4
    \/ b[1] \in {1, 2} /\ from_num_panics(b[2])

\* mutant: the directions are decoded in the order of the arrow keys
into_input_event_arrows(b, entity_id) ==
    CASE b[1] = 0 -> [type |-> "Quit", entity_id |-> 0, dir |-> "None"]
      [] b[1] = 1 -> [type |-> "Move", entity_id |-> entity_id,
                      dir |-> <<"None", "Left", "Right", "Up", "Down">>[b[2] + 1]]
      [] b[1] = 2 -> [type |-> "Fire", entity_id |-> entity_id,
                      dir |-> <<"None", "Left", "Right", "Up", "Down">>[b[2] + 1]]
      [] b[1] = 3 -> [type |-> "ToggleShield", entity_id |-> entity_id, dir |-> "None"]
      [] b[1] = 4 -> [type |-> "ChangeWeapon", entity_id |-> entity_id, dir |-> "None"]

\* into_input_event; a variant without a field carries 0 or "None" in its place
into_input_event(b, entity_id) ==
    CASE b[1] = 0 -> [type |-> "Quit", entity_id |-> 0, dir |-> "None"]
      [] b[1] = 1 -> [type |-> "Move", entity_id |-> entity_id, dir |-> from_num(b[2])]
      [] b[1] = 2 -> [type |-> "Fire", entity_id |-> entity_id, dir |-> from_num(b[2])]
      [] b[1] = 3 -> [type |-> "ToggleShield", entity_id |-> entity_id, dir |-> "None"]
      [] b[1] = 4 -> [type |-> "ChangeWeapon", entity_id |-> entity_id, dir |-> "None"]

\* Server::new for both slots: no connection yet, the threads listen
NetInit ==
    /\ conn = [s \in Players |-> 0]
    /\ ch = <<>>
    /\ thread = [s \in Players |-> [pc |-> "accept", n |-> 0]]
    /\ sock = [s \in Players |->
                  [n |-> 0, peer |-> "none", inbox |-> <<>>, written |-> 0, outbox |-> 0]]

\* send_state of slot s: what write_all on the slot's stream does
\*   "none"  the handle is None, nothing is written
\*   "ok"    the snapshot fits in the socket's buffer
\*   "block" the buffer is full and the peer is not reading: write_all waits
\*   "err"   the peer has closed the connection: write_all returns an error
write_all(s) ==
    IF conn[s] = 0 THEN "none"
    ELSE IF conn[s] = sock[s].n /\ sock[s].peer = "open"
    THEN IF sock[s].outbox < SockCap THEN "ok" ELSE "block"
    ELSE "err"

\* ---- the state machine: run and game_loop ----
Init ==
    /\ w = add_obstacles(add_players(empty_world))
    /\ pc = "wait"
    /\ phase = 0
    /\ is_quit = FALSE
    /\ es = <<>>
    /\ tick = 0
    /\ inputs = 0
    /\ round = 0
    /\ NetInit

\* mutant: the system array outlives the round
StartRound_old_systems ==
    /\ pc = "wait"
    /\ both_players_alive(w)
    /\ round < MaxRounds
    /\ w' = to_start_positions(
                [w EXCEPT !.alive = Put(Put(@, w.player1, TRUE), w.player2, TRUE)])
    /\ is_quit' = FALSE
    /\ tick' = 0
    /\ round' = round + 1
    /\ pc' = "input"
    /\ UNCHANGED <<phase, es, inputs, net>>

\* run: the match loop enters game_loop, which revives the players, builds a
\* fresh system array and places the players
StartRound ==
    /\ pc = "wait"
    /\ both_players_alive(w)
    /\ round < MaxRounds
    /\ w' = to_start_positions(
                [w EXCEPT !.alive = Put(Put(@, w.player1, TRUE), w.player2, TRUE)])
    /\ phase' = 0
    /\ is_quit' = FALSE
    /\ tick' = 0
    /\ round' = round + 1
    /\ pc' = "input"
    /\ UNCHANGED <<es, inputs, net>>

\* game_loop: one event of the drain is applied to the World; the environment
\* sends events of the set `events`, at most `max` of them in a match
ApplyEvent(events, max) ==
    /\ pc = "input"
    /\ inputs < max
    /\ tick < InputTicks
    /\ \E ie \in events :
          /\ ie.type = "Fire" => Len(w.name) < MaxEntities
          /\ IF ie.type = "Fire" /\ fire_panics(w, ie)
             THEN /\ w' = new_missile_panic(w)
                  /\ pc' = "panic"
             ELSE /\ w' = on_event(w, ie)
                  /\ pc' = "input"
    /\ inputs' = inputs + 1
    /\ UNCHANGED <<phase, is_quit, es, tick, round, net>>

\* game_loop: InputEvent::Quit ends the drain and the round loop
Quit(max) ==
    /\ pc = "input"
    /\ inputs < max
    /\ tick < InputTicks
    /\ is_quit' = TRUE
    /\ pc' = "roundEnd"
    /\ inputs' = inputs + 1
    /\ UNCHANGED <<w, phase, es, tick, round, net>>

\* mutant: the systems start with events left in the channel
BeginTick_early ==
    /\ pc = "input"
    /\ tick < MaxTicks
    /\ pc' = "Move"
    /\ UNCHANGED <<w, phase, is_quit, es, tick, inputs, round, net>>

\* game_loop: the drain is over, the systems run in array order
BeginTick ==
    /\ pc = "input"
    /\ ch = <<>>
    /\ tick < MaxTicks
    /\ pc' = "Move"
    /\ UNCHANGED <<w, phase, is_quit, es, tick, inputs, round, net>>

MoveStep ==
    /\ pc = "Move"
    /\ w' = move_system(w)
    /\ pc' = "Lifetime"
    /\ UNCHANGED <<phase, is_quit, es, tick, inputs, round, net>>

LifetimeStep ==
    /\ pc = "Lifetime"
    /\ w' = lifetime_system(w)
    /\ pc' = "Collision"
    /\ UNCHANGED <<phase, is_quit, es, tick, inputs, round, net>>

\* mutant: the array of systems lacks EnergyReload
CollisionStep_no_reload ==
    /\ pc = "Collision"
    /\ w' = collision_system(w)
    /\ pc' = "Explode"
    /\ UNCHANGED <<phase, is_quit, es, tick, inputs, round, net>>

CollisionStep ==
    /\ pc = "Collision"
    /\ w' = collision_system(w)
    /\ pc' = "EnergyReload"
    /\ UNCHANGED <<phase, is_quit, es, tick, inputs, round, net>>

\* System::step for EnergyReload(n)
EnergyReloadStep ==
    /\ pc = "EnergyReload"
    /\ w' = IF phase = 0 THEN energy_system(w) ELSE w
    /\ phase' = (phase + 1) % ENERGY_EVERY
    /\ pc' = "Explode"
    /\ UNCHANGED <<is_quit, es, tick, inputs, round, net>>

ExplodeStep ==
    /\ pc = "Explode"
    /\ w' = explode_system(w)
    /\ pc' = "Send"
    /\ UNCHANGED <<phase, is_quit, es, tick, inputs, round, net>>

\* send_state: the stream after write_all, the handle after take
sent(sk, s) == IF write_all(s) = "ok" THEN [sk EXCEPT ![s].outbox = @ + 1] ELSE sk

taken(c, s) == IF write_all(s) = "err" THEN [c EXCEPT ![s] = 0] ELSE c

\* send_state: what shutdown returns on the stream whose write failed; the
\* peer being gone, the platform decides between Ok and NotConnected
shutdown(s) == IF write_all(s) = "err" THEN {"ok", "err"} ELSE {"ok"}

\* game_loop: the snapshot of the tick is encoded and handed to the servers of
\* slot 1 and slot 2 in turn, then the loop condition is tested. A write_all
\* that waits keeps the simulation thread in send_state.
SendState ==
    /\ pc = "Send"
    /\ IF entity_state_panics(w)
       THEN /\ pc' = "panic"
            /\ UNCHANGED <<es, conn, sock>>
       ELSE /\ es' = entity_state(w)
            /\ write_all(1) # "block"
            /\ \E r1 \in shutdown(1) :
                  IF r1 = "err"
                  THEN /\ conn' = taken(conn, 1)
                       /\ sock' = sock
                       /\ pc' = "panic"
                  ELSE /\ write_all(2) # "block"
                       /\ \E r2 \in shutdown(2) :
                             /\ conn' = taken(taken(conn, 1), 2)
                             /\ sock' = sent(sent(sock, 1), 2)
                             /\ pc' = IF r2 = "err" THEN "panic"
                                      ELSE IF both_players_standing(w) THEN "input"
                                      ELSE "roundEnd"
    /\ tick' = tick + 1
    /\ UNCHANGED <<w, phase, is_quit, inputs, round, ch, thread>>

\* mutant: the round costs both players a life
EndRound_both ==
    /\ pc = "roundEnd"
    /\ w' = [w EXCEPT !.p1_lives = @ - 1, !.p2_lives = @ - 1]
    /\ pc' = "afterRound"
    /\ UNCHANGED <<phase, is_quit, es, tick, inputs, round, net>>

\* game_loop: the lives are counted after the round loop
EndRound ==
    /\ pc = "roundEnd"
    /\ w' = [w EXCEPT !.p1_lives = IF ~At(w.alive, w.player1) THEN @ - 1 ELSE @,
                      !.p2_lives = IF ~At(w.alive, w.player2) THEN @ - 1 ELSE @]
    /\ pc' = "afterRound"
    /\ UNCHANGED <<phase, is_quit, es, tick, inputs, round, net>>

\* mutant: run does not look at what game_loop returns
NextRound_deaf ==
    /\ pc = "afterRound"
    /\ IF ~both_players_alive(w)
       THEN /\ pc' = "done"
            /\ UNCHANGED w
       ELSE /\ w' = reset(w)
            /\ pc' = "wait"
    /\ UNCHANGED <<phase, is_quit, es, tick, inputs, round, net>>

\* run: after game_loop the match ends (quit or game over) or the world is reset
NextRound ==
    /\ pc = "afterRound"
    /\ IF is_quit \/ ~both_players_alive(w)
       THEN /\ pc' = "done"
            /\ UNCHANGED w
       ELSE /\ w' = reset(w)
            /\ pc' = "wait"
    /\ UNCHANGED <<phase, is_quit, es, tick, inputs, round, net>>

\* one pass of game_loop's while loop after the drain
Tick ==
    \/ BeginTick
    \/ MoveStep
    \/ LifetimeStep
    \/ CollisionStep
    \/ EnergyReloadStep
    \/ ExplodeStep
    \/ SendState

\* the steps of run and game_loop that take no input
Step ==
    \/ StartRound
    \/ Tick
    \/ EndRound
    \/ NextRound

\* ---- the bots and the server threads ----
game == <<w, pc, phase, is_quit, es, tick, inputs, round>>

\* rs-sdk connect: a bot connects to the socket of a slot whose thread is
\* listening and has served the connections made before
ClientConnect ==
    \E s \in Players :
        /\ sock[s].peer \in {"none", "closed"}
        /\ sock[s].n < MaxConns
        /\ thread[s] = [pc |-> "accept", n |-> sock[s].n]
        /\ sock' = [sock EXCEPT ![s].n = @ + 1, ![s].peer = "open", ![s].outbox = 0]
        /\ UNCHANGED <<game, conn, ch, thread>>

\* a bot writes one 8-byte record of the set `records`, at most `max` of them
\* in a match
ClientWrite(records, max) ==
    \E s \in Players :
        /\ sock[s].peer = "open"
        /\ sock[s].written < max
        /\ tick < InputTicks
        /\ \E b \in records :
              sock' = [sock EXCEPT ![s].inbox = Append(@, b), ![s].written = @ + 1]
        /\ UNCHANGED <<game, conn, ch, thread>>

\* BotIn: a bot reads one snapshot
ClientRead ==
    \E s \in Players :
        /\ sock[s].peer = "open"
        /\ sock[s].outbox > 0
        /\ sock' = [sock EXCEPT ![s].outbox = @ - 1]
        /\ UNCHANGED <<game, conn, ch, thread>>

\* a bot closes its connection
ClientClose ==
    \E s \in Players :
        /\ sock[s].peer = "open"
        /\ sock' = [sock EXCEPT ![s].peer = "closed"]
        /\ UNCHANGED <<game, conn, ch, thread>>

\* Server::run: accept, try_clone, the clone replaces Server.conn
Accept ==
    \E s \in Players :
        /\ thread[s].pc = "accept"
        /\ thread[s].n < sock[s].n
        /\ thread' = [thread EXCEPT ![s] = [pc |-> "handler", n |-> sock[s].n]]
        /\ conn' = [conn EXCEPT ![s] = sock[s].n]
        /\ UNCHANGED <<game, ch, sock>>

\* handler: read_exact fills the buffer, into_input_event decodes it and the
\* event is sent to the channel; a panic of into_input_event unwinds the thread
\* through handler and run
HandlerRead ==
    \E s \in Players :
        /\ thread[s].pc = "handler"
        /\ sock[s].inbox # <<>>
        /\ sock' = [sock EXCEPT ![s].inbox = Tail(@)]
        /\ IF into_input_event_panics(Head(sock[s].inbox))
           THEN /\ thread' = [thread EXCEPT ![s].pc = "panicked"]
                /\ UNCHANGED ch
           ELSE /\ ch' = Append(ch, into_input_event(Head(sock[s].inbox), s))
                /\ UNCHANGED thread
        /\ UNCHANGED <<game, conn>>

\* handler: read_exact meets the end of the stream, handler returns Ok and run
\* goes back to accept
HandlerEof ==
    \E s \in Players :
        /\ thread[s].pc = "handler"
        /\ sock[s].inbox = <<>>
        /\ sock[s].peer = "closed"
        /\ thread' = [thread EXCEPT ![s].pc = "accept"]
        /\ UNCHANGED <<game, conn, ch, sock>>

\* game_loop: try_iter yields the next event of the channel
RecvEvent ==
    /\ pc = "input"
    /\ ch # <<>>
    /\ ch' = Tail(ch)
    /\ LET ie == Head(ch)
       IN  IF ie.type = "Quit"
           THEN /\ is_quit' = TRUE
                /\ pc' = "roundEnd"
                /\ UNCHANGED w
           ELSE /\ ie.type = "Fire" => Len(w.name) < MaxEntities
                /\ IF ie.type = "Fire" /\ fire_panics(w, ie)
                   THEN /\ w' = new_missile_panic(w)
                        /\ pc' = "panic"
                   ELSE /\ w' = on_event(w, ie)
                        /\ pc' = "input"
                /\ UNCHANGED is_quit
    /\ UNCHANGED <<phase, es, tick, inputs, round, conn, thread, sock>>

\* input::start: the keyboard thread sends one event of the set `events` to
\* the channel, at most `max` of them in a match
KeyEvent(events, max) ==
    /\ inputs < max
    /\ tick < InputTicks
    /\ pc \notin {"panic", "done"}
    /\ \E ie \in events : ch' = Append(ch, ie)
    /\ inputs' = inputs + 1
    /\ UNCHANGED <<w, pc, phase, is_quit, es, tick, round, conn, thread, sock>>

\* the threads spawned by Server::new
Serve ==
    \/ Accept
    \/ HandlerRead
    \/ HandlerEof

\* the bots of a match
Bots(records) ==
    \/ ClientConnect
    \/ ClientWrite(records, MaxRecords)
    \/ ClientRead
    \/ ClientClose

Next ==
    \/ ApplyEvent(InputEvents, MaxInputs)
    \/ Quit(MaxInputs)
    \/ Step

Spec == Init /\ [][Next]_vars

\* the shoot-out: the players only fire
FireEvents == {ie \in InputEvents : ie.type = "Fire"}

NextShots ==
    \/ ApplyEvent(FireEvents, MaxShots)
    \/ Quit(MaxShots)
    \/ Step

SpecShots == Init /\ [][NextShots]_vars

\* the duel: the players stand still and only fire missiles at each other
DuelEvents ==
    {[type |-> "Fire", entity_id |-> 1, dir |-> "Right"],
     [type |-> "Fire", entity_id |-> 2, dir |-> "Left"]}

NextDuel ==
    \/ ApplyEvent(DuelEvents, MaxInputs)
    \/ Quit(MaxInputs)
    \/ Step

SpecDuel == Init /\ [][NextDuel]_vars

\* the duel with the game loop running: neither run nor game_loop blocks, the
\* drain uses try_iter and every tick ends with a bounded sleep
SpecDuelLive == SpecDuel /\ WF_vars(Step)

\* the shield economy: a round in progress, between two ticks. Player 1 has
\* spent energy (a shot at the border costs energy and creates nothing, a
\* raised shield costs ENERGY_SHIELD at every reload) and is back on its start
\* cell; the obstacles have been through the reload of tick 0; the snapshot of
\* the last tick has been sent. The players only toggle their shields.
ShieldEvents == {ie \in InputEvents : ie.type = "ToggleShield"}

\* the systems of one tick in array order, EnergyReload being active
active_tick(wd) ==
    explode_system(energy_system(collision_system(lifetime_system(move_system(wd)))))

InitEnergy ==
    /\ \E e \in 1 .. MAX_ENERGY : \E s \in BOOLEAN :
          LET w0 == active_tick(to_start_positions(add_obstacles(add_players(empty_world))))
          IN  w = [w0 EXCEPT !.energy[w0.player1 + 1] = e, !.shield[w0.player1 + 1] = s]
    /\ pc = "input"
    /\ phase \in 0 .. (ENERGY_EVERY - 1)
    /\ is_quit = FALSE
    /\ es = entity_state(w)
    /\ tick = 0
    /\ inputs = 0
    /\ round = 1
    /\ NetInit

NextEnergy ==
    \/ ApplyEvent(ShieldEvents, MaxInputs)
    \/ Quit(MaxInputs)
    \/ Tick
    \/ EndRound
    \/ NextRound

SpecEnergy == InitEnergy /\ [][NextEnergy]_vars

\* the blast: the match on terminals of different heights; player 1 walks
\* down and fires to the right
BlastEvents ==
    {[type |-> "Move", entity_id |-> 1, dir |-> "Down"],
     [type |-> "Fire", entity_id |-> 1, dir |-> "Right"]}

InitBlast ==
    /\ \E height \in Height .. BlastHeight :
          w = add_obstacles(add_players(World(Width, height)))
    /\ pc = "wait"
    /\ phase = 0
    /\ is_quit = FALSE
    /\ es = <<>>
    /\ tick = 0
    /\ inputs = 0
    /\ round = 0
    /\ NetInit

NextBlast ==
    \/ ApplyEvent(BlastEvents, MaxInputs)
    \/ Quit(MaxInputs)
    \/ Step

SpecBlast == InitBlast /\ [][NextBlast]_vars

\* the empty magazine: a round in progress, between two ticks, as in
\* InitEnergy. Player 1 has spent energy down to at most one ray's worth and
\* holds either weapon; it only fires.
LowFireEvents == {ie \in InputEvents : ie.type = "Fire" /\ ie.entity_id = 1}

InitLowFire ==
    /\ \E e \in 1 .. (ENERGY_RAY + 1) : \E weapon \in {"Missile", "Ray"} :
          LET w0 == active_tick(to_start_positions(add_obstacles(add_players(empty_world))))
          IN  w = [w0 EXCEPT !.energy[w0.player1 + 1] = e,
                             !.active_weapon[w0.player1 + 1] = weapon]
    /\ pc = "input"
    /\ phase \in 0 .. (ENERGY_EVERY - 1)
    /\ is_quit = FALSE
    /\ es = entity_state(w)
    /\ tick = 0
    /\ inputs = 0
    /\ round = 1
    /\ NetInit

NextLowFire ==
    \/ ApplyEvent(LowFireEvents, MaxInputs)
    \/ Quit(MaxInputs)
    \/ Tick
    \/ EndRound
    \/ NextRound

SpecLowFire == InitLowFire /\ [][NextLowFire]_vars

\* the match played by bots: well-formed records and records no bot of the
\* rs-sdk writes
BadRecords == {<<5, 0, 0, 0, 0, 0, 0, 0>>, <<2, 5, 0, 0, 0, 0, 0, 0>>}

NetRecords == {encode("Move", "Down"), encode("Quit", "None")} \cup BadRecords

NextServer ==
    \/ Bots(NetRecords)
    \/ Serve
    \/ RecvEvent
    \/ tick < NetTicks /\ Step

SpecServer == Init /\ [][NextServer]_vars

\* the wire: the bots write the record of every command and direction, the
\* threads decode them and game_loop takes the events from the channel
CommandTypes == {"Quit", "Move", "Fire", "ToggleShield", "ChangeWeapon"}

Encodings == {encode(type, dir) : type \in CommandTypes, dir \in Dirs}

NextCodec ==
    \/ ClientConnect
    \/ ClientWrite(Encodings, MaxRecords)
    \/ Accept
    \/ HandlerRead
    \/ StartRound
    \/ RecvEvent

SpecCodec == Init /\ [][NextCodec]_vars

\* the audience: the bots connect, read snapshots or not, and leave; they
\* write nothing
NextStall ==
    \/ ClientConnect
    \/ ClientRead
    \/ ClientClose
    \/ Accept
    \/ HandlerEof
    \/ tick < NetTicks /\ Step

SpecStall == Init /\ [][NextStall]_vars

\* the audience with the threads of the game running: the game loop and the
\* server threads are scheduled; nothing makes a bot read or leave
SpecStallLive == SpecStall /\ WF_vars(tick < NetTicks /\ Step) /\ WF_vars(Serve)

\* the endgame: the last rounds of a duel. The rounds played before have left
\* each life counter at 1 or 2 and the World has been reset.
EndgameLives == 1 .. 2

InitEndgame ==
    /\ \E l1 \in EndgameLives : \E l2 \in EndgameLives :
          w = [add_obstacles(add_players(empty_world))
                  EXCEPT !.p1_lives = l1, !.p2_lives = l2]
    /\ pc = "wait"
    /\ phase = 0
    /\ is_quit = FALSE
    /\ es = <<>>
    /\ tick = 0
    /\ inputs = 0
    /\ round = 0
    /\ NetInit

SpecEndgame == InitEndgame /\ [][NextDuel]_vars

\* the endgame with the game loop running
SpecEndgameLive == SpecEndgame /\ WF_vars(Step)

\* the border: a round in progress, between two ticks, as in InitEnergy.
\* Player 1 has walked to a cell of its column or of the leftmost or rightmost
\* column, where it stands still or moves up or down, with either weapon; it
\* only fires.
BorderRows == 2 .. (Height - 3)

BorderColumns == {1, Width \div 4, Width - 2}

InitBorder ==
    /\ \E x \in BorderColumns : \E y \in BorderRows :
       \E dir \in {"None", "Up", "Down"} : \E weapon \in {"Missile", "Ray"} :
          LET w0 == active_tick(to_start_positions(add_obstacles(add_players(empty_world))))
          IN  w = [w0 EXCEPT !.position[w0.player1 + 1][1].x = x,
                             !.position[w0.player1 + 1][1].y = y,
                             !.velocity[w0.player1 + 1].dir = dir,
                             !.active_weapon[w0.player1 + 1] = weapon]
    /\ pc = "input"
    /\ phase = 1
    /\ is_quit = FALSE
    /\ es = entity_state(w)
    /\ tick = 0
    /\ inputs = 0
    /\ round = 1
    /\ NetInit

SpecBorder == InitBorder /\ [][NextLowFire]_vars

\* the shared queue: the keyboard thread and the bots of both slots send
\* commands while the game runs
KeyEvents ==
    {[type |-> "Move", entity_id |-> 1, dir |-> "Up"],
     [type |-> "ChangeWeapon", entity_id |-> 2, dir |-> "None"]}

QueueRecords == {encode("Move", "Down"), encode("ToggleShield", "None")}

NextQueue ==
    \/ KeyEvent(KeyEvents, MaxInputs)
    \/ ClientConnect
    \/ ClientWrite(QueueRecords, MaxRecords)
    \/ ClientRead
    \/ Accept
    \/ HandlerRead
    \/ RecvEvent
    \/ tick < NetTicks /\ Step

SpecQueue == Init /\ [][NextQueue]_vars

\* the reserve: a round in progress, between two ticks, on a tick where the
\* recharge is due. Player 1 has an energy near the cost of a weapon or of
\* the shield, or near the cap, with either weapon and the shield on or off;
\* it fires to the left and toggles its shield.
ReserveLevels == (1 .. (ENERGY_RAY + 2)) \cup {MAX_ENERGY - 1, MAX_ENERGY}

ReserveEvents ==
    {[type |-> "Fire", entity_id |-> 1, dir |-> "Left"],
     [type |-> "ToggleShield", entity_id |-> 1, dir |-> "None"]}

InitReserve ==
    /\ \E e \in ReserveLevels : \E s \in BOOLEAN : \E weapon \in {"Missile", "Ray"} :
          LET w0 == active_tick(to_start_positions(add_obstacles(add_players(empty_world))))
          IN  w = [w0 EXCEPT !.energy[w0.player1 + 1] = e,
                             !.shield[w0.player1 + 1] = s,
                             !.active_weapon[w0.player1 + 1] = weapon]
    /\ pc = "input"
    /\ phase = 0
    /\ is_quit = FALSE
    /\ es = entity_state(w)
    /\ tick = 0
    /\ inputs = 0
    /\ round = 1
    /\ NetInit

NextReserve ==
    \/ ApplyEvent(ReserveEvents, MaxInputs)
    \/ Quit(MaxInputs)
    \/ Tick
    \/ EndRound
    \/ NextRound

SpecReserve == InitReserve /\ [][NextReserve]_vars

\* the volley: player 1 fires missiles at player 2, several in one drain
MaxVolley == 4

VolleyEvents == {[type |-> "Fire", entity_id |-> 1, dir |-> "Right"]}

NextVolley ==
    \/ ApplyEvent(VolleyEvents, MaxVolley)
    \/ Step

SpecVolley == Init /\ [][NextVolley]_vars

\* the volley with the game loop running
SpecVolleyLive == SpecVolley /\ WF_vars(Step)

\* ---- properties ----
\* the rows of the world at construction: two players and the obstacles
BaseEntities == Len(add_obstacles(add_players(empty_world)).name)

\* C1: whenever a factory call, a reset or a pipeline step has returned, the
\* eleven component arrays (name, alive, lifetime, sprite, velocity, position,
\* energy, shield, bounce, explode, active_weapon) have the same length.  (The
\* panic of new_missile on Dir::None aborts the process in the middle of the
\* row; that call never returns.)
C1_EqualLengths ==
    pc # "panic" =>
        \A n \in {Len(w.alive), Len(w.lifetime), Len(w.sprite), Len(w.velocity),
                  Len(w.position), Len(w.energy), Len(w.shield), Len(w.bounce),
                  Len(w.explode), Len(w.active_weapon)} : n = Len(w.name)

\* a second round (after a reset) in which a projectile was created and a tick ran
C1_Witness ==
    /\ round = 2
    /\ pc = "Send"
    /\ Len(w.name) > BaseEntities
    /\ Len(w.position) = Len(w.name)

\* C2 as stated: at the end of a tick every cell of every alive, non-exploding
\* entity satisfies is_on_board.
C2_Original ==
    pc = "Send" =>
        \A id \in Ids(w.name) :
            At(w.alive, id) /\ ~At(w.explode, id).is =>
                \A k \in 1 .. Len(At(w.position, id)) : is_on_board(w, At(w.position, id)[k])

\* C2 amended: at the end of a tick, every cell that is not flagged invalid of
\* every alive, non-exploding entity other than the Solid obstacles satisfies
\* is_on_board.
C2_Amended ==
    pc = "Send" =>
        \A id \in Ids(w.name) :
            At(w.alive, id) /\ ~At(w.explode, id).is /\ At(w.lifetime, id) # Solid =>
                \A k \in 1 .. Len(At(w.position, id)) :
                    ~At(w.position, id)[k].invalid => is_on_board(w, At(w.position, id)[k])

\* an alive projectile at the end of a tick, one cell stuck (flagged invalid)
\* and another one moved
C2_Witness ==
    /\ pc = "Send"
    /\ \E id \in Ids(w.name) :
          /\ At(w.alive, id)
          /\ ~At(w.explode, id).is
          /\ At(w.lifetime, id).tag = "Temporary"
          /\ \E k \in 1 .. Len(At(w.position, id)) : At(w.position, id)[k].invalid
          /\ \E k \in 1 .. Len(At(w.position, id)) : is_on_board(w, At(w.position, id)[k])

\* alive entities a # b share a cell
alive_overlap(wd, a, b) == a # b /\ At(wd.alive, a) /\ At(wd.alive, b) /\ cells_hit(wd, a, b)

\* C3: in a Collision step, two alive entities that share a cell and are both
\* unshielded are both not-alive after the step; if exactly one of them is
\* shielded, the unshielded one is not-alive after the step and the shielded
\* one is still alive.
C3_Claim ==
    [][pc = "Collision" =>
        \A a \in Ids(w.name) : \A b \in Ids(w.name) :
            alive_overlap(w, a, b) =>
                /\ (~At(w.shield, a) /\ ~At(w.shield, b)) =>
                       (~At(w'.alive, a) /\ ~At(w'.alive, b))
                /\ (At(w.shield, a) /\ ~At(w.shield, b)) =>
                       (At(w'.alive, a) /\ ~At(w'.alive, b))]_vars

\* the pairs a < b of alive entities that share a cell
alive_hits(wd) ==
    {ab \in Ids(wd.name) \X Ids(wd.name) : ab[1] < ab[2] /\ alive_overlap(wd, ab[1], ab[2])}

\* the first of them when the pairs are scanned in ascending id order
first_alive_hit(wd) ==
    CHOOSE ab \in alive_hits(wd) :
        \A cd \in alive_hits(wd) : ab[1] < cd[1] \/ (ab[1] = cd[1] /\ ab[2] <= cd[2])

\* C4: the Collision step tests the pairs of distinct entities that are alive
\* at its start, and only those, in ascending id order: when no two alive
\* entities share a cell nothing is marked (the cells of a not-alive entity
\* cause no hit), and otherwise the first alive pair that shares a cell is
\* the one that is resolved (no such pair is skipped).
C4_Claim ==
    [][pc = "Collision" =>
        IF alive_hits(w) = {} THEN w'.alive = w.alive
        ELSE LET ab == first_alive_hit(w)
             IN  /\ ~At(w.shield, ab[1]) => ~At(w'.alive, ab[1])
                 /\ ~At(w.shield, ab[2]) => ~At(w'.alive, ab[2])]_vars

\* C5: within a round, the remaining ticks n of an entity with lifetime
\* Temporary(n) never increase, change only in the Lifetime step and then by
\* exactly 1; an alive entity whose decrement reaches 0 is not-alive after
\* that same Lifetime step, every other alive Temporary entity is decremented
\* by it, and a Temporary entity that is not alive stays not-alive.
C5_Lifetime ==
    [][pc # "afterRound" =>
        \A id \in Ids(w.name) :
            At(w.lifetime, id).tag = "Temporary" =>
                LET n == At(w.lifetime, id).n
                    n2 == At(w'.lifetime, id).n
                IN  /\ At(w'.lifetime, id).tag = "Temporary"
                    /\ n2 = n \/ (n2 = n - 1 /\ pc = "Lifetime")
                    /\ n2 >= 1
                    /\ (pc = "Lifetime" /\ At(w.alive, id)) =>
                          IF n - 1 = 0 THEN ~At(w'.alive, id) /\ n2 = n
                          ELSE n2 = n - 1 /\ At(w'.alive, id)
                    /\ ~At(w.alive, id) => ~At(w'.alive, id)]_vars

\* a projectile that the Lifetime step has just ended: its last tick is used up
C5_Witness ==
    /\ pc = "Collision"
    /\ \E id \in Ids(w.name) :
          /\ At(w.lifetime, id) = Temporary(1)
          /\ ~At(w.alive, id)
          /\ At(w.explode, id).is

\* the direction opposite to d, as a table
Reverse(d) ==
    CASE d = "Up" -> "Down"
      [] d = "Down" -> "Up"
      [] d = "Left" -> "Right"
      [] d = "Right" -> "Left"
      [] d = "None" -> "None"

\* the coordinates of the cells of an entity
coords(wd, id) ==
    [k \in 1 .. Len(At(wd.position, id)) |->
        <<At(wd.position, id)[k].x, At(wd.position, id)[k].y>>]

\* no cell of the entity can walk its velocity's steps on the board
blocked(wd, id) ==
    \A k \in 1 .. Len(At(wd.position, id)) :
        \E j \in 1 .. At(wd.velocity, id).q :
            ~is_on_board(wd, moved(At(wd.position, id)[k], j, At(wd.velocity, id).dir))

\* C6: in the Move step, an entity with bounce = true whose next position is
\* off board keeps its step count, gets the opposite direction, and keeps the
\* coordinates of its cells in that tick (the refused cell is flagged invalid,
\* it is not moved).
C6_Bounce ==
    [][pc = "Move" =>
        \A id \in Ids(w.name) :
            (At(w.bounce, id) /\ blocked(w, id)) =>
                /\ At(w'.velocity, id).q = At(w.velocity, id).q
                /\ At(w'.velocity, id).dir = Reverse(At(w.velocity, id).dir)
                /\ coords(w', id) = coords(w, id)]_vars

\* a player that the Move step has just bounced off the border
C6_Witness ==
    /\ pc = "Lifetime"
    /\ \E id \in Ids(w.name) :
          /\ At(w.bounce, id)
          /\ At(w.velocity, id).dir # "None"
          /\ At(w.position, id)[1].invalid
          /\ blocked(w, id) = FALSE

\* the cells of the square of side 5 around (x, y) that are on the board
Footprint(wd, x, y) ==
    {c \in ((x - 2) .. (x + 2)) \X ((y - 2) .. (y + 2)) :
        is_on_board(wd, Pos(c[1], c[2], FALSE))}

\* C7: when the Explode step runs, for every detonation cell (x, y) of the
\* terminal, explosion returns exactly the cells of [x-2,x+2] x [y-2,y+2] that
\* are on the board, each once, none flagged invalid or with a negative
\* coordinate, and at most 25 of them.
C7_Explosion ==
    pc = "Explode" =>
        \A x \in 0 .. w.width : \A y \in 0 .. w.height :
            LET v == explosion(w, Pos(x, y, FALSE))
            IN  /\ {<<v[k].x, v[k].y>> : k \in 1 .. Len(v)} = Footprint(w, x, y)
                /\ Len(v) = Cardinality(Footprint(w, x, y))
                /\ \A k \in 1 .. Len(v) : v[k].x >= 0 /\ v[k].y >= 0 /\ ~v[k].invalid
                /\ Len(v) <= 25

\* a missile that the Explode step has just turned into an explosion which the
\* border clips
C7_Witness ==
    /\ pc = "Send"
    /\ \E id \in Ids(w.name) :
          /\ At(w.alive, id)
          /\ At(w.explode, id).is
          /\ At(w.velocity, id) = [q |-> 0, dir |-> "None"]
          /\ Len(At(w.position, id)) \in 1 .. 24
          /\ \E x \in 0 .. w.width : \E y \in 0 .. w.height :
                {<<c.x, c.y>> : c \in {At(w.position, id)[k] : k \in 1 .. Len(At(w.position, id))}}
                    = Footprint(w, x, y)

\* the players' entity ids
PlayerIds == {w.player1, w.player2}

\* C8: a player whose energy is below ENERGY_SHIELD keeps that energy until the
\* next tick on which EnergyReload is active; that step leaves its shield off
\* (a raised shield is turned off) and its energy one unit higher; no energy is
\* ever negative.
C8_ShieldEconomy ==
    [][/\ \A id \in PlayerIds :
            At(w.energy, id) < ENERGY_SHIELD /\ pc # "afterRound" =>
                IF pc = "EnergyReload" /\ phase = 0
                THEN /\ ~At(w'.shield, id)
                     /\ At(w'.energy, id) = At(w.energy, id) + 1
                ELSE At(w'.energy, id) = At(w.energy, id)
       /\ \A id \in Ids(w'.energy) : At(w'.energy, id) >= 0]_vars

\* the active EnergyReload step has just turned off the shield that player 1,
\* short of energy, had up in the last snapshot; nobody touched a key
C8_Witness ==
    /\ pc = "Explode"
    /\ phase = 1
    /\ inputs = 0
    /\ Len(es) = 12 * Len(w.name)
    /\ es[12 * w.player1 + 12] = 1
    /\ ~At(w.shield, w.player1)
    /\ At(w.energy, w.player1) <= ENERGY_SHIELD

\* the life counter of player n
lives(wd, n) == IF n = 1 THEN wd.p1_lives ELSE wd.p2_lives

\* the projectiles of the round
projectiles(wd) == {id \in Ids(wd.lifetime) : At(wd.lifetime, id).tag = "Temporary"}

\* the x coordinates strictly between two cells of a row
between(xa, xb) == {x \in 0 .. Width + 1 : (xa < x /\ x < xb) \/ (xb < x /\ x < xa)}

\* Player a has fired one missile straight at player b, who stands still
\* without shield on a's row within missile range, no obstacle in between;
\* the missile is on its way, it is the only projectile of the round, no
\* further input arrives, and the life counters are la and lb.
duel_case(a, b, la, lb) ==
    LET ida == player_of(w, a)
        idb == player_of(w, b)
        pa == At(w.position, ida)[1]
        pb == At(w.position, idb)[1]
    IN  /\ pc = "input"
        /\ tick >= InputTicks
        /\ lives(w, a) = la /\ lives(w, b) = lb
        /\ At(w.alive, ida) /\ At(w.alive, idb)
        /\ ~At(w.shield, idb)
        /\ At(w.velocity, idb).dir = "None"
        /\ pa.y = pb.y
        /\ between(pa.x, pb.x) # {}
        /\ Cardinality(between(pa.x, pb.x)) < w.missile_range_horizontal
        /\ \A x \in between(pa.x, pb.x) : is_on_board(w, Pos(x, pa.y, FALSE))
        /\ \E m \in projectiles(w) :
              /\ projectiles(w) = {m}
              /\ At(w.alive, m)
              /\ At(w.explode, m) = [will |-> TRUE, is |-> FALSE]
              /\ At(w.sprite, m).color_idx = At(w.sprite, ida).color_idx
              /\ At(w.velocity, m).dir = (IF pa.x < pb.x THEN "Right" ELSE "Left")
              /\ \A k \in 1 .. Len(At(w.position, m)) :
                    /\ At(w.position, m)[k].y = pa.y
                    /\ At(w.position, m)[k].x \in between(pa.x, pb.x) \cup {pa.x}

\* the round is over: b is not alive and has lost one life, a is alive and has
\* lost none
duel_won(a, b, la, lb) ==
    /\ pc = "afterRound"
    /\ ~At(w.alive, player_of(w, b))
    /\ At(w.alive, player_of(w, a))
    /\ lives(w, a) = la
    /\ lives(w, b) = lb - 1

\* the values a life counter can have while a round of the model is played
RoundLives == (PLAYER_LIVES - MaxRounds + 1) .. PLAYER_LIVES

\* C9: if player A fires a missile straight at a stationary, unshielded player
\* B within missile range with no obstacle in between (and nothing else is
\* fired), then the round ends with B not alive and A alive, B's life counter
\* one lower and A's unchanged.
C9_Duel ==
    \A a \in Players : \A la \in RoundLives : \A lb \in RoundLives :
        duel_case(a, 3 - a, la, lb) ~> duel_won(a, 3 - a, la, lb)

\* player 1's only missile has hit player 2, who loses the round and a life
C9_Witness ==
    /\ duel_won(1, 2, PLAYER_LIVES, PLAYER_LIVES)
    /\ \E m \in projectiles(w) :
          /\ projectiles(w) = {m}
          /\ ~At(w.alive, m)
          /\ At(w.sprite, m).color_idx = 1
          /\ \E k \in 1 .. Len(At(w.position, m)) :
                does_hit(At(w.position, m)[k], At(w.position, w.player2)[1])

\* the u32 that four big-endian bytes stand for
from_be_bytes(b) == ((b[1] * 256 + b[2]) * 256 + b[3]) * 256 + b[4]

\* C10: for every World reached after a tick (the systems have run, the
\* snapshot is about to be encoded), entity_state succeeds and returns 12 bytes
\* per entity: record i holds the id byte i, the x and the y of the first cell
\* of entity i as big-endian u32, the direction code 0..4, the step count of
\* the velocity and the shield flag 1 or 0, for alive and not-alive entities.
C10_Claim ==
    pc = "Send" =>
        /\ ~entity_state_panics(w)
        /\ Len(entity_state(w)) = 12 * Len(w.name)
        /\ \A i \in Ids(w.name) :
              LET r == SubSeq(entity_state(w), 12 * i + 1, 12 * i + 12)
              IN  /\ r[1] = i
                  /\ from_be_bytes(SubSeq(r, 2, 5)) = At(w.position, i)[1].x
                  /\ from_be_bytes(SubSeq(r, 6, 9)) = At(w.position, i)[1].y
                  /\ r[10] \in 0 .. 4 /\ r[10] = as_num(At(w.velocity, i).dir)
                  /\ r[11] = At(w.velocity, i).q
                  /\ r[12] = (IF At(w.shield, i) THEN 1 ELSE 0)

\* C12: in every tick the input events are applied first (only while the
\* drain runs, before Move), then the five systems run once each in the order
\* Move, Lifetime, Collision, EnergyReload, Explode, and the snapshot is the
\* encoding of the World that Explode of the same tick left.
C12_PipelineOrder ==
    [][/\ inputs' # inputs => pc = "input"
       /\ pc' = "Move" => pc = "input" /\ w' = w
       /\ pc = "Move" => pc' = "Lifetime" /\ w' = move_system(w)
       /\ pc = "Lifetime" => pc' = "Collision" /\ w' = lifetime_system(w)
       /\ pc = "Collision" => pc' = "EnergyReload" /\ w' = collision_system(w)
       /\ pc = "EnergyReload" =>
             /\ pc' = "Explode"
             /\ w' = (IF phase = 0 THEN energy_system(w) ELSE w)
       /\ pc = "Explode" => pc' = "Send" /\ w' = explode_system(w)
       /\ pc' = "Send" => pc = "Explode"
       /\ pc = "Send" =>
             /\ w' = w
             /\ pc' \in {"input", "roundEnd", "panic"}
             /\ pc' # "panic" => es' = entity_state(w)
       /\ es' # es => pc = "Send"]_vars

\* the first tick of a round is over: a missile fired in its drain has been
\* moved by Move and aged by Lifetime, and the snapshot sent shows the World
\* as Explode left it
C12_Witness ==
    /\ pc = "input"
    /\ tick = 1
    /\ phase = 1
    /\ es = entity_state(w)
    /\ \E m \in Ids(w.name) :
          /\ At(w.alive, m)
          /\ At(w.lifetime, m) = Temporary(w.missile_range_horizontal - 1)
          /\ At(w.velocity, m) = [q |-> 2, dir |-> "Right"]
          /\ At(w.position, m)[1].x = At(w.position, w.player1)[1].x + 2

\* the rays of the World
rays(wd) == {id \in Ids(wd.name) : At(wd.name, id).kind = "Ray"}

\* C13: a ray stays alive and keeps shield = true until its Temporary
\* lifetime runs out: no Move, Collision or EnergyReload step ends it or
\* removes its shield, and Lifetime ends it only when its ticks are used up.
C13_Claim ==
    [][\A id \in rays(w) :
          /\ pc \in {"Move", "Collision", "EnergyReload"} =>
                /\ At(w.alive, id) => At(w'.alive, id)
                /\ At(w.alive, id) /\ At(w.shield, id) => At(w'.shield, id)
          /\ pc = "Lifetime" /\ At(w.alive, id) /\ At(w.lifetime, id).n > 1 =>
                At(w'.alive, id)]_vars

\* C14: the Move step never marks a shielded entity not-alive.
C14_Claim ==
    [][pc = "Move" =>
          \A id \in Ids(w.name) :
              At(w.alive, id) /\ At(w.shield, id) => At(w'.alive, id)]_vars

\* a step leaves the components of entity id as they are
dead_frame(id) ==
    /\ At(w'.position, id) = At(w.position, id)
    /\ At(w'.velocity, id) = At(w.velocity, id)
    /\ At(w'.lifetime, id) = At(w.lifetime, id)
    /\ At(w'.energy, id) = At(w.energy, id)
    /\ At(w'.shield, id) = At(w.shield, id)
    /\ At(w'.explode, id) = At(w.explode, id)

\* C15: once an entity is not alive, no pipeline system changes its position,
\* velocity, lifetime, energy, shield or explode component for the rest of the
\* round.
C15_Claim ==
    [][(pc \in {"Move", "Lifetime", "Collision", "EnergyReload", "Explode"}) =>
          \A id \in Ids(w.name) :
              ~At(w.alive, id) => dead_frame(id)]_vars


\* the energy a shot with the active weapon of entity id costs
weapon_cost(wd, id) ==
    IF At(wd.active_weapon, id) = "Missile" THEN ENERGY_MISSILE ELSE ENERGY_RAY

\* C16: a Fire event of a player whose energy is below the cost of its active
\* weapon is refused without a trace: the drain goes on and the World, new
\* entities and the player's energy included, is unchanged.
C16_FireRefused ==
    [][(/\ pc = "input"
        /\ inputs' = inputs + 1
        /\ is_quit' = is_quit
        /\ At(w.energy, w.player1) < weapon_cost(w, w.player1))
            => w' = w /\ pc' = "input"]_vars

\* a Fire event has been refused in the first drain: player 1 holds the ray
\* with less than ENERGY_RAY and nothing was created
C16_Witness ==
    /\ pc = "input"
    /\ tick = 0
    /\ inputs >= 1
    /\ ~is_quit
    /\ At(w.active_weapon, w.player1) = "Ray"
    /\ At(w.energy, w.player1) = ENERGY_RAY - 1
    /\ Len(w.name) = 4

\* C17: a ToggleShield event of a player whose energy is below ENERGY_SHIELD
\* does not switch the shield on.
C17_Claim ==
    [][(pc = "input" /\ inputs' = inputs + 1 /\ is_quit' = is_quit) =>
          \A id \in PlayerIds :
              At(w.energy, id) < ENERGY_SHIELD /\ ~At(w.shield, id)
                  => ~At(w'.shield, id)]_vars

\* the event a thread has just sent to the channel
sent_event == ch'[Len(ch')]

\* C11: decoding the 8-byte record of a command (its code in byte 0,
\* Dir::as_num of its direction in byte 1, zeros after) gives the same command
\* variant, for the slot of the connection, and for Move and Fire the same
\* direction; Dir::from_num(Dir::as_num(d)) = d for each of the 5 directions.
C11_RoundTrip ==
    [][/\ \A d \in Dirs : ~from_num_panics(as_num(d)) /\ from_num(as_num(d)) = d
       /\ \A s \in Players :
            (thread[s].pc = "handler" /\ Len(sock'[s].inbox) < Len(sock[s].inbox)) =>
                \A type \in CommandTypes : \A d \in Dirs :
                    Head(sock[s].inbox) = encode(type, d) =>
                        /\ thread'[s].pc = "handler"
                        /\ Len(ch') = Len(ch) + 1
                        /\ sent_event.type = type
                        /\ type # "Quit" => sent_event.entity_id = s
                        /\ type \in {"Move", "Fire"} => sent_event.dir = d]_vars

\* the records of Fire Right written to slot 2 and of Move Left written to
\* slot 1 have been decoded
C11_Witness ==
    /\ Len(ch) = 2
    /\ ch[1] = [type |-> "Fire", entity_id |-> 2, dir |-> "Right"]
    /\ ch[2] = [type |-> "Move", entity_id |-> 1, dir |-> "Left"]

\* the thread of slot s takes a record off its connection
reads_record(s) ==
    thread[s].pc = "handler" /\ Len(sock'[s].inbox) < Len(sock[s].inbox)

\* C18: a record with an undefined command code, or a Move or Fire record with
\* a direction code above 4, ends its connection and nothing else: no event is
\* sent to the channel, the World and the game loop are as they were, and the
\* thread of the slot is back in its accept loop.
C18_Claim ==
    [][\A s \in Players :
          (reads_record(s) /\ into_input_event_panics(Head(sock[s].inbox))) =>
              /\ ch' = ch
              /\ w' = w
              /\ pc' = pc
              /\ thread'[s].pc = "accept"]_vars

\* the game loop hands the snapshot of the tick to the servers
sends_state == pc = "Send" /\ pc' # pc /\ ~entity_state_panics(w)

\* C19: when write_all fails on the stream of a slot, the handle of that slot
\* becomes None and nothing is written to it from then on, the tick ends and
\* the loop goes on, and the other slot keeps its handle and gets its snapshot.
C19_Claim ==
    [][sends_state =>
          \A s \in Players :
              /\ write_all(s) = "err" =>
                    /\ conn'[s] = 0
                    /\ pc' \in {"input", "roundEnd"}
                    /\ \A o \in Players \ {s} :
                          /\ write_all(o) # "err" => conn'[o] = conn[o]
                          /\ write_all(o) = "ok" => sock'[o].outbox = sock[o].outbox + 1
              /\ conn[s] = 0 => sock'[s] = sock[s] /\ conn'[s] = 0]_vars

\* C20: the simulation thread never waits for a socket: the tick that has
\* reached send_state ends, whether or not the bots read their snapshots.
C20_Claim == (pc = "Send") ~> (pc # "Send")

\* the fields of the World outside the component arrays that reset leaves alone
statics(wd) ==
    <<wd.p1_lives, wd.p2_lives, wd.width, wd.height,
      wd.missile_range_horizontal, wd.missile_range_vertical>>

\* the run loop resets the World between two rounds
resets == pc = "afterRound" /\ pc' = "wait"

\* C21: World::reset leaves the life counters, the board dimensions and the
\* missile ranges as they are; afterwards the store holds the two players
\* followed by the obstacles and nothing else, all alive, each player with
\* full energy, shield off and the missile as weapon.
C21_Reset ==
    [][resets =>
          /\ statics(w') = statics(w)
          /\ Len(w'.name) = BaseEntities
          /\ \A id \in Ids(w'.name) :
                /\ At(w'.alive, id)
                /\ At(w'.name, id).kind = (IF id < 2 THEN "Player" ELSE "Bar")
                /\ At(w'.lifetime, id).tag # "Temporary"
          /\ \A id \in {w'.player1, w'.player2} :
                /\ At(w'.name, id).kind = "Player"
                /\ At(w'.energy, id) = MAX_ENERGY
                /\ ~At(w'.shield, id)
                /\ At(w'.active_weapon, id) = "Missile"]_vars

\* the World has been reset after a round of the duel that player 2 lost to a
\* missile
C21_Witness ==
    /\ pc = "wait"
    /\ round = 1
    /\ w.p2_lives = PLAYER_LIVES - 1
    /\ w.p1_lives = PLAYER_LIVES
    /\ Len(w.name) = BaseEntities
    /\ projectiles(w) = {}

\* what the end of the round costs player n
life_cost(wd, n) == IF At(wd.alive, player_of(wd, n)) THEN 0 ELSE 1

\* C22: at the end of a round, and only there, the life counter of a player
\* goes down by exactly 1 if the player is not alive and stays as it is
\* otherwise, also when the round ends by Quit; a counter never goes up and
\* never below zero.
C22_Lives ==
    [][\A n \in Players :
          /\ lives(w', n) = IF pc = "roundEnd" /\ pc' # pc
                            THEN lives(w, n) - life_cost(w, n)
                            ELSE lives(w, n)
          /\ lives(w', n) >= 0]_vars

\* player 2 has lost its last life and player 1 has kept its own
C22_Witness ==
    /\ pc = "afterRound"
    /\ ~is_quit
    /\ w.p2_lives = 0
    /\ ~At(w.alive, w.player2)
    /\ At(w.alive, w.player1)
    /\ w.p1_lives \in EndgameLives

\* the World but for its life counters
apart_from_lives(wd) == [wd EXCEPT !.p1_lives = 0, !.p2_lives = 0]

\* what a step may do once Quit has been taken from the channel: the loops
\* are left, no event is applied, no system runs, no round starts
after_quit ==
    /\ is_quit'
    /\ pc' \in {"roundEnd", "afterRound", "done"}
    /\ apart_from_lives(w') = apart_from_lives(w)
    /\ <<inputs', tick', round', es', ch'>> = <<inputs, tick, round, es, ch>>

\* C23: once Quit is dequeued no later event is applied, no system step runs
\* and the round loop and the match loop exit without another round; without
\* Quit the match loop exits exactly when a life counter has reached zero.
C23_Quit ==
    /\ [][/\ is_quit => after_quit
          /\ (pc = "afterRound" /\ ~is_quit /\ pc' # pc) =>
                pc' = (IF both_players_alive(w) THEN "wait" ELSE "done")
          /\ (pc' = "done" /\ pc # "done") => pc = "afterRound"]_vars
    /\ is_quit ~> (pc = "done")

\* the match has ended by a Quit that arrived after a shot, a tick into the
\* round, with both players alive and the missile still in the store
C23_Witness ==
    /\ pc = "done"
    /\ is_quit
    /\ tick >= 1
    /\ both_players_alive(w)
    /\ both_players_standing(w)
    /\ Len(w.name) > BaseEntities

\* entity id turns into an explosion in this step
turns_explosion(id) ==
    /\ pc = "Explode"
    /\ ~At(w.explode, id).is
    /\ At(w'.explode, id).is
    /\ At(w'.position, id) = explosion(w, At(w.position, id)[1])

\* C24: as long as the World is not reset, the position list of an entity
\* keeps the length it was created with (Move overwrites or flags the cells in
\* place), except in the Explode step that turns the entity into an explosion,
\* which replaces the whole list by the footprint.
C24_FixedLength ==
    [][pc # "afterRound" =>
          \A id \in Ids(w.position) :
              \/ Len(At(w'.position, id)) = Len(At(w.position, id))
              \/ turns_explosion(id)]_vars

\* a missile has turned into an explosion of more than two cells
C24_Witness ==
    /\ pc = "Send"
    /\ \E id \in Ids(w.position) :
          /\ At(w.name, id).kind = "Missile"
          /\ At(w.explode, id).is
          /\ Len(At(w.position, id)) > 2

\* C25: new_missile called with a start cell whose next cell in the firing
\* direction is not on board returns the World as it got it: no component
\* array changes and no entity is created. (The start cells are those a Fire
\* event of either player hands to it.)
C25_NoOp ==
    \A n \in Players : \A dir \in Dirs :
        LET id == player_of(w, n)
            start_pos == fire_pos(w, id, dir)
        IN  ~is_on_board(w, moved(start_pos, 1, dir)) =>
                new_missile(w, start_pos, dir, At(w.sprite, id).color_idx) = w

\* player 1, on the bottom row and not moving down, has fired a missile
\* downwards in the first drain: the shot was paid and nothing was created
C25_Witness ==
    /\ pc = "input"
    /\ tick = 0
    /\ inputs = 1
    /\ ~is_quit
    /\ At(w.position, w.player1)[1].y = Height - 3
    /\ At(w.velocity, w.player1).dir # "Down"
    /\ At(w.energy, w.player1) = MAX_ENERGY - ENERGY_MISSILE
    /\ Len(w.name) = BaseEntities

\* the velocity of the player of slot s
slot_velocity(wd, s) == At(wd.velocity, player_of(wd, s))

\* C26: after a clean close by the bot of a slot, the handler returns and the
\* thread of the slot is back in its accept loop, the game loop goes on (no
\* step ends it), and the velocity of the slot's player is changed by nothing
\* but a command from the channel, the bounce of a Move step and the start of
\* a round.
C26_Claim ==
    [][\A s \in Players :
          sock[s].peer = "closed" =>
              /\ (thread[s].pc = "handler" /\ sock[s].inbox = <<>> /\ thread'[s] # thread[s])
                    => thread'[s].pc = "accept"
              /\ pc # "panic" => pc' # "panic"
              /\ (ch' = ch /\ pc \notin {"Move", "wait", "afterRound"})
                    => slot_velocity(w', s) = slot_velocity(w, s)]_vars

\* C27: the channel is a queue: events enter at its tail and leave at its
\* head, one at a time; an event leaves only in the drain of game_loop, where
\* it is applied to the World as it leaves; nothing else changes the World in
\* the drain; and the Move step starts only when the channel is empty, so an
\* event that enters later waits for the drain of the next tick.
C27_Queue ==
    [][/\ \/ ch' = ch
          \/ \E ie \in InputEvents : ch' = Append(ch, ie)
          \/ ch # <<>> /\ ch' = Tail(ch)
       /\ (ch # <<>> /\ ch' = Tail(ch)) =>
             /\ pc = "input"
             /\ w' = on_event(w, Head(ch))
       /\ (pc = "input" /\ w' # w) => (ch # <<>> /\ ch' = Tail(ch))
       /\ (pc = "input" /\ pc' = "Move") => ch = <<>>]_vars

\* a key event for player 1 has been applied in the first drain ahead of the
\* command of the bot of slot 2, which entered the channel after it and is
\* still waiting
C27_Witness ==
    /\ pc = "input"
    /\ tick = 0
    /\ inputs = 1
    /\ At(w.velocity, w.player1).dir = "Up"
    /\ ch = <<[type |-> "ToggleShield", entity_id |-> 2, dir |-> "None"]>>

\* the coordinates of cell p are inside the borders of the board
inside(wd, p) ==
    /\ 1 <= p.x /\ p.x < wd.width - 1
    /\ 2 <= p.y /\ p.y < wd.height - 2

\* C28: no unsigned value goes below zero. No cell of the World has a
\* negative coordinate and none gets one from Pos::moved; the start cell a
\* Fire event hands to new_ray is inside the board and its distance to the
\* edge is not negative; a living entity with a Temporary lifetime has at
\* least 1 tick left, so that the decrement of lifetime_system stays at or
\* above zero; energies and life counters are not negative.
C28_NoUnderflow ==
    /\ \A id \in Ids(w.position) : \A k \in 1 .. Len(At(w.position, id)) :
          \A dir \in Dirs :
              LET p == At(w.position, id)[k]
                  q == moved(p, 1, dir)
              IN  p.x >= 0 /\ p.y >= 0 /\ q.x >= 0 /\ q.y >= 0
    /\ pc = "input" =>
          \A n \in Players : \A dir \in Dirs :
              LET id == player_of(w, n)
              IN  ~fire_blocked(w, id, dir) =>
                      /\ inside(w, fire_pos(w, id, dir))
                      /\ dist_to_edge(w, fire_pos(w, id, dir), dir) >= 0
    /\ \A id \in Ids(w.lifetime) :
          /\ (id \in Ids(w.alive) /\ At(w.alive, id) /\ At(w.lifetime, id).tag = "Temporary")
                => At(w.lifetime, id).n >= 1
          /\ At(w.lifetime, id).n >= 0
    /\ \A id \in Ids(w.energy) : At(w.energy, id) >= 0
    /\ w.p1_lives >= 0 /\ w.p2_lives >= 0

\* player 1 has fired a ray upwards from the top row, where the distance to
\* the edge is 0 and the ray has no cell
C28_Witness ==
    /\ At(w.position, w.player1)[1].y = 2
    /\ \E id \in Ids(w.position) :
          /\ At(w.name, id).kind = "Ray"
          /\ At(w.velocity, id).dir = "Up"
          /\ At(w.position, id) = <<>>

\* C29: from world creation on and after every reset, player1 is entity 0
\* and player2 is entity 1, the ids of the bot SDK; these two entities are
\* the players and their lifetime is Permanent in every state of a round.
C29_PlayerIds ==
    /\ w.player1 = PLAYER_1_ID
    /\ w.player2 = PLAYER_2_ID
    /\ At(w.name, PLAYER_1_ID) = [kind |-> "Player", num |-> 1]
    /\ At(w.name, PLAYER_2_ID) = [kind |-> "Player", num |-> 2]
    /\ At(w.lifetime, w.player1).tag = "Permanent"
    /\ At(w.lifetime, w.player2).tag = "Permanent"

\* a round has been lost, the World has been reset and a tick of the next
\* round has run with the players in slots 0 and 1
C29_Witness ==
    /\ pc = "input"
    /\ tick >= 1
    /\ w.p1_lives + w.p2_lives < 2 * PLAYER_LIVES
    /\ w.player1 = PLAYER_1_ID
    /\ w.player2 = PLAYER_2_ID
    /\ At(w.lifetime, w.player1).tag = "Permanent"

\* C30: a Fire event with direction None stops the simulation before any
\* system runs: whenever a system is about to run, every projectile of the
\* World that is not an explosion has a direction other than None.
C30_Claim ==
    pc \in {"Move", "Lifetime", "Collision", "EnergyReload", "Explode"} =>
        \A id \in projectiles(w) :
            At(w.velocity, id).dir = "None" => At(w.explode, id).is

\* the World with everything but its entity components blanked
components(wd) ==
    [wd EXCEPT !.width = 0, !.height = 0, !.player1 = 0, !.player2 = 0,
               !.p1_lives = 0, !.p2_lives = 0,
               !.missile_range_horizontal = 0, !.missile_range_vertical = 0]

shift(p, k, dir) ==
    CASE dir = "Up" -> Pos(p.x, p.y - k, FALSE)
      [] dir = "Down" -> Pos(p.x, p.y + k, FALSE)
      [] dir = "Left" -> Pos(p.x - k, p.y, FALSE)
      [] dir = "Right" -> Pos(p.x + k, p.y, FALSE)
      [] dir = "None" -> Pos(p.x, p.y, FALSE)

\* C32: in the Move step a cell of a living entity with velocity (q, dir),
\* q > 0, ends exactly q cells further in direction dir when each of the q
\* cells on its way is on-board, and otherwise keeps its coordinates and is
\* flagged invalid; the cells of every other entity stay as they are.
C32_Walk ==
    [][(pc = "Move" /\ pc' = "Lifetime") =>
          \A id \in Ids(w.position) :
              /\ Len(At(w'.position, id)) = Len(At(w.position, id))
              /\ \A idx \in 1 .. Len(At(w.position, id)) :
                    LET v == At(w.velocity, id)
                        p == At(w.position, id)[idx]
                        path_ok == \A k \in 1 .. v.q : is_on_board(w, shift(p, k, v.dir))
                        new == At(w'.position, id)[idx]
                    IN  IF At(w.alive, id) /\ v.q > 0
                        THEN IF path_ok THEN new = shift(p, v.q, v.dir)
                             ELSE new = [p EXCEPT !.invalid = TRUE]
                        ELSE new = p]_vars

\* the first cell of a missile flying left was refused in the Move step
\* with the obstacle on the next cell of its way
C32_Witness ==
    /\ pc = "Lifetime"
    /\ \E id \in projectiles(w) : \E bar \in Ids(w.lifetime) :
          /\ At(w.lifetime, bar) = Solid
          /\ At(w.velocity, id) = [q |-> 2, dir |-> "Left"]
          /\ At(w.position, id)[1].invalid
          /\ At(w.position, id)[1].x = At(w.position, bar)[1].x + 1
          /\ At(w.position, id)[1].y = At(w.position, bar)[1].y

\* a step of one of the five systems
system_step ==
    /\ pc \in {"Move", "Lifetime", "Collision", "EnergyReload", "Explode"}
    /\ pc' # pc

\* C33: with the ticks of a round counted from 0, the EnergyReload step of
\* tick 0, 5, 10, ... applies energy_system to the World, and in every other
\* tick no step of the five systems changes an energy or a shield.
C33_Phase ==
    [][system_step =>
          IF tick % ENERGY_EVERY = 0
          THEN pc = "EnergyReload" => w' = energy_system(w)
          ELSE w'.energy = w.energy /\ w'.shield = w.shield]_vars

\* in the second round, after a first round that a hit ended, the recharge
\* has just run in tick 5
C33_Witness ==
    /\ round = 2
    /\ w.p1_lives + w.p2_lives < 2 * PLAYER_LIVES
    /\ tick = ENERGY_EVERY
    /\ pc = "Explode"
    /\ phase = 1

\* C34: an entity that will explode starts exploding in the Explode step of
\* the first tick whose Lifetime step left it EXPLODE_DURATION ticks or less,
\* and in no other step; it then gets velocity (0, None) and the footprint of
\* the explosion as its cells. From then on, within the round, it stays
\* exploding with the same velocity and the same cells, and while it lives it
\* has at most EXPLODE_DURATION ticks left, of which every Lifetime step takes
\* one, the last one marking it not-alive.
C34_Explosion ==
    [][pc # "afterRound" =>
          \A id \in Ids(w.explode) :
              LET e == At(w.explode, id)
                  n == At(w.lifetime, id).n
                  starts == ~e.is /\ At(w'.explode, id).is
              IN  /\ starts <=> (pc = "Explode" /\ e.will /\ ~e.is /\ n <= EXPLODE_DURATION)
                  /\ starts =>
                        /\ At(w'.velocity, id) = [q |-> 0, dir |-> "None"]
                        /\ At(w'.position, id) = explosion(w, At(w.position, id)[1])
                  /\ (e.will /\ ~e.is /\ pc \notin {"Collision", "EnergyReload", "Explode"})
                        => n > EXPLODE_DURATION
                  /\ e.is =>
                        /\ At(w'.explode, id).is
                        /\ At(w.velocity, id) = [q |-> 0, dir |-> "None"]
                        /\ At(w'.velocity, id) = At(w.velocity, id)
                        /\ At(w'.position, id) = At(w.position, id)
                  /\ (e.is /\ At(w.alive, id)) =>
                        /\ n <= EXPLODE_DURATION
                        /\ pc = "Lifetime" =>
                              IF n = 1 THEN ~At(w'.alive, id)
                              ELSE At(w'.lifetime, id).n = n - 1]_vars

\* an explosion has run out of ticks: it is not alive, it has not moved and
\* it still has the cells of its footprint
C34_Witness ==
    /\ pc = "input"
    /\ \E id \in Ids(w.explode) :
          /\ At(w.explode, id).is
          /\ ~At(w.alive, id)
          /\ At(w.lifetime, id).n = 1
          /\ At(w.velocity, id) = [q |-> 0, dir |-> "None"]
          /\ Len(At(w.position, id)) > 2

\* the entities a step marks not-alive
marked == {id \in Ids(w.alive) : At(w.alive, id) /\ ~At(w'.alive, id)}

\* C35: a Collision step marks at most two entities, and when it marks any
\* it has resolved one pair, the first pair of alive entities sharing a cell
\* in ascending id order: the entities it marks are the unshielded members of
\* that pair and every other entity is left as it was.
C35_Claim ==
    [][pc = "Collision" =>
          /\ Cardinality(marked) <= 2
          /\ marked # {} =>
                /\ alive_hits(w) # {}
                /\ LET ab == first_alive_hit(w)
                   IN  marked = {id \in {ab[1], ab[2]} : ~At(w.shield, id)}]_vars

\* the ids a missile of a volley can get
VolleyIds == BaseEntities .. (MaxEntities - 1)

\* the Collision step of this tick has resolved the pair (x, y) and left the
\* unshielded entities a and b alive on a shared cell
passed_over(a, b) ==
    /\ pc = "EnergyReload"
    /\ {a, b} \subseteq Ids(w.explode)
    /\ alive_overlap(w, a, b)
    /\ ~At(w.shield, a) /\ ~At(w.shield, b)
    /\ \E x \in Ids(w.explode) \ {a, b} : \E y \in Ids(w.explode) \ {a, b} :
          /\ x < y
          /\ ~At(w.alive, x) /\ ~At(w.alive, y)
          /\ cells_hit(w, x, y)
          /\ At(w.lifetime, x) = At(w.lifetime, a)
          /\ At(w.lifetime, y) = At(w.lifetime, a)
          /\ At(w.lifetime, a).n > EXPLODE_DURATION

\* a later Collision step finds a and b alive on a shared cell
still_sharing(a, b) ==
    /\ pc = "Collision"
    /\ {a, b} \subseteq Ids(w.explode)
    /\ alive_overlap(w, a, b)

\* a and b have both been marked not-alive
resolved(a, b) ==
    /\ {a, b} \subseteq Ids(w.alive)
    /\ ~At(w.alive, a) /\ ~At(w.alive, b)

obstacles(wd) == {id \in Ids(wd.lifetime) : At(wd.lifetime, id) = Solid}

\* C37: when the Collision step is about to run, no living entity that is
\* not Solid has a cell on the cell of a Solid entity; and no step ever marks
\* a Solid entity not-alive.
C37_Obstacles ==
    /\ [](pc = "Collision" =>
            \A s \in obstacles(w) : \A id \in Ids(w.position) \ obstacles(w) :
                At(w.alive, id) => ~cells_hit(w, id, s))
    /\ [][\A s \in obstacles(w) : At(w.alive, s) /\ At(w'.alive, s)]_vars

\* the Collision step is about to run with a living ray that ends on the
\* cell next to an obstacle
C37_Witness ==
    /\ pc = "Collision"
    /\ \E id \in projectiles(w) : \E s \in obstacles(w) :
          /\ At(w.name, id).kind = "Ray"
          /\ At(w.alive, id)
          /\ \E k \in 1 .. Len(At(w.position, id)) :
                /\ At(w.position, id)[k].x + 1 = At(w.position, s)[1].x
                /\ At(w.position, id)[k].y = At(w.position, s)[1].y

\* C38: the position list of every entity has at least one cell in every
\* state, so that its first cell can be read; stated here for the entities
\* that have a direction, rays fired along a border among them.
C38_Claim ==
    \A id \in Ids(w.position) :
        At(w.velocity, id).dir # "None" => Len(At(w.position, id)) >= 1

\* C39: a Fire event of player 1 lowers the energy of player 1 if and only if
\* it adds an entity to the World (the events of this drain are all Fire
\* events of player 1).
C39_Claim ==
    [][(pc = "input" /\ inputs' = inputs + 1 /\ pc' = "input") =>
          (At(w'.energy, w.player1) < At(w.energy, w.player1)
              <=> Len(w'.lifetime) > Len(w.lifetime))]_vars

\* C40: the energy of each player is at least 1 and at most MAX_ENERGY in
\* every state of a round.
C40_Energy ==
    \A n \in Players :
        /\ At(w.energy, player_of(w, n)) >= 1
        /\ At(w.energy, player_of(w, n)) <= MAX_ENERGY

\* player 1 has fired, and the upkeep of its shield, which is still on, has
\* then taken its energy down to 1
C40_Witness ==
    /\ pc = "Explode"
    /\ At(w.energy, w.player1) = 1
    /\ At(w.shield, w.player1)
    /\ projectiles(w) # {}
====
